---- MODULE Spec2Model ----
(***************************************************************************)
(* A model of the CA school directory pipeline: the layered scraper        *)
(* (logic/scraper), the record merger, the normalizer                       *)
(* (logic/normalizer.py), the demographic enrichment                        *)
(* (logic/demographic_calculator.py) and the ranking stage                  *)
(* (logic/spreadsheet_builder.py).                                          *)
(*                                                                          *)
(* Python values are modelled uniformly as tuples, so that any two values   *)
(* can be compared:                                                         *)
(*   str    a sequence of one-character strings (the empty str is << >>)    *)
(*   None   <<"None">>                                                      *)
(*   int    <<"int", n>>                                                    *)
(*   float  <<"float", whole, decimals>>  (decimals: text, no trailing 0)    *)
(*          <<"quot", n, d>> when it comes from a division or is used in    *)
(*          arithmetic: the quotient n/d in lowest terms, d > 0             *)
(*   dict   a function from keys (TLA+ strings) to values, at top level;    *)
(*          <<"dict", f>> where it is the value of a field                  *)
(*   list   <<"list", seq>>                                                 *)
(***************************************************************************)
EXTENDS Integers, Sequences, FiniteSets, TLC

VARIABLES
    \* ---- SchoolDataMerger.merge_data, as a function under test
    basic, details, additional, merged, m_pc,
    \* ---- Orchestrator: its options, the listing it was given, the loop of run()
    test_mode, incremental_update, all_basic_schools, pc, idx, all_schools_data,
    result,
    \* ---- the files the orchestrator writes (they outlive a run)
    schools_incremental,    \* data/schools_incremental/<cds>.json
    schools_dir,            \* data/schools/<cds>.json
    all_schools_json,       \* data/all_schools.json: << >> (no file) or <<dict>>
    \* ---- what the run logged, and what it did for the listing it handled last
    n_skipped_warnings, n_success_infos, n_errors, last,
    \* ---- history: whether this run was started after a killed one, the
    \* checkpoints found when it started, the identifiers whose latest
    \* checkpoint write of this run failed
    restarted, ckpt_before, write_failed,
    \* ---- SchoolDataNormalizer.normalize_school_data, as a function under test
    raw, normalized, nz_pc,
    \* ---- SchoolDataNormalizer.run: the two directories, the files the glob
    \* has yet to yield, where run() is, the read errors it logged
    input_dir, output_dir, glob_left, nr_pc, nr_read_errors,
    \* ---- parse_administrators, parse_english_language_learners and
    \* extract_address_components, as functions under test: the argument, the
    \* tagger's answer, the result
    pa_text, pa_admins, pa_pc,
    pe_value, pe_result, pe_pc,
    addr_in, addr_tag, addr_out, ea_pc,
    \* ---- DemographicCalculator._enrich_single_file: the table loaded from the
    \* CSV, the record read, the record written
    city_data, en_school, en_out, en_pc,
    \* ---- SpreadsheetBuilder.run: the files of data_dir in listdir order, the
    \* lists run() holds (their records are objects shared between the lists),
    \* the spreadsheet written, where run() is
    sb_files, sb_schools, sb_public, sb_private, sb_public_sorted,
    sb_private_sorted, sb_spreadsheet, sb_pc,
    \* ---- Orchestrator.run called a second time once it has returned: what
    \* the fetches of each listing answer (the same in both runs), which run
    \* this is, the files as the first run left them
    rr_fetch, rr_run, rr_first,
    \* ---- run_pipeline: the stage it is in, data/schools_normalized_demo
    pl_pc, pl_demo_dir,
    \* ---- clean_text, as a function under test: the text, what clean_text
    \* returns for it, what it returns for that, and the position
    ct_text, ct_once, ct_twice, ct_pc

mvars == <<basic, details, additional, merged, m_pc>>

ovars == <<test_mode, incremental_update, all_basic_schools, pc, idx,
           all_schools_data, result, schools_incremental, schools_dir,
           all_schools_json, n_skipped_warnings, n_success_infos, n_errors,
           last, restarted, ckpt_before, write_failed>>

zvars == <<raw, normalized, nz_pc>>

rvars == <<input_dir, output_dir, glob_left, nr_pc, nr_read_errors>>

avars == <<pa_text, pa_admins, pa_pc>>

evars == <<pe_value, pe_result, pe_pc>>

xvars == <<addr_in, addr_tag, addr_out, ea_pc>>

dvars == <<city_data, en_school, en_out, en_pc>>

svars == <<sb_files, sb_schools, sb_public, sb_private, sb_public_sorted,
           sb_private_sorted, sb_spreadsheet, sb_pc>>

hvars == <<rr_fetch, rr_run, rr_first>>

pvars == <<pl_pc, pl_demo_dir>>

cvars == <<ct_text, ct_once, ct_twice, ct_pc>>

----------------------------------------------------------------------------
(* Python values *)

None == <<"None">>

PyInt(n) == <<"int", n>>

PyDict(f) == <<"dict", f>>

PyList(s) == <<"list", s>>

EmptyDict == [k \in {} |-> None]

\* Python's truth value of a str, None, int, dict or list.
Truthy(v) ==
    /\ v # None
    /\ v # << >>
    /\ v # PyInt(0)
    /\ v # PyDict(EmptyDict)
    /\ v # PyList(<< >>)

\* dict.update(e) on a copy of d: the keys of e override.
dict_update(d, e) ==
    [k \in DOMAIN d \cup DOMAIN e |-> IF k \in DOMAIN e THEN e[k] ELSE d[k]]

----------------------------------------------------------------------------
(* SchoolDataMerger *)

merge_data_swapped(b, d, a) ==
    dict_update(dict_update(dict_update(EmptyDict, b), a), d)

merge_data(b, d, a) ==
    dict_update(dict_update(dict_update(EmptyDict, b), d), a)

----------------------------------------------------------------------------
(* Calls that may raise: a call's outcome is a returned value or an exception *)

Return(v) == [exc |-> FALSE, val |-> v]

Raise == [exc |-> TRUE, val |-> None]

----------------------------------------------------------------------------
(* URLManager *)

BASE_URL == <<"w">>

normalize_details_url(relative_url) ==
    BASE_URL \o (IF relative_url[1] = "/" THEN relative_url
                 ELSE <<"/">> \o relative_url)

build_additional_details_url(cds_code) == BASE_URL \o <<"?">> \o cds_code

----------------------------------------------------------------------------
(* SchoolDetailsScraper and AdditionalDetailsScraper.  The transport and the  *)
(* markup parser are outside the repository; what they can answer for a page  *)
(* is one of:                                                                 *)
(*   "error"     session.get or raise_for_status raises                       *)
(*   "rejected"  the page is fetched and BeautifulSoup raises on its markup   *)
(*   "no_table"  the page is fetched and holds no table                       *)
(*   "table"     the page is fetched and holds the label/value table          *)

Responses == {"error", "rejected", "no_table", "table"}

Html(resp) == <<"html", resp>>

DetailsTable == [Status |-> <<"A">>, Enrollment |-> <<"7">>]

AdditionalTable == [Status |-> <<"M">>, Administrator |-> <<"J">>]

fetch_details(url, resp) == IF resp = "error" THEN None ELSE Html(resp)

parse_details(html) ==
    IF html[2] = "rejected" THEN Raise
    ELSE IF html[2] = "no_table" THEN Return(EmptyDict)
    ELSE Return(DetailsTable)

get_school_details(cds_code, relative_url, resp) ==
    LET full_url == normalize_details_url(relative_url)
        html == fetch_details(full_url, resp)
    IN  IF Truthy(html) THEN parse_details(html) ELSE Return(EmptyDict)

fetch_additional_details(url, resp) == IF resp = "error" THEN None ELSE Html(resp)

parse_additional_details(html) ==
    IF html[2] = "rejected" THEN Raise
    ELSE IF html[2] = "no_table" THEN Return(EmptyDict)
    ELSE Return(AdditionalTable)

get_additional_details(cds_code, resp) ==
    LET url == build_additional_details_url(cds_code)
        html == fetch_additional_details(url, resp)
    IN  IF Truthy(html) THEN parse_additional_details(html) ELSE Return(EmptyDict)

----------------------------------------------------------------------------
(* JSONExporter.  A write of a file ends in one of:                           *)
(*   "ok"      the file holds the data                                        *)
(*   "open"    open() raised: the file is as it was                           *)
(*   "dump"    json.dump raised after open(.., "w") truncated the file: the   *)
(*             file is left without a record in it                            *)
(* Both failures are caught and logged by the exporter.                       *)

WriteOutcomes == {"ok", "open", "dump"}

Truncated == [truncated |-> None]

\* data/all_schools.json left without its records: a value that can be
\* compared with an aggregate, whose keys are CDS codes.
TruncatedAggregate == <<"t", "r", "u", "n", "c", "a", "t", "e", "d">> :> None

\* export_individual(schools, directory): `dir` is the directory before the
\* call, `wr` the outcome of each file's write.
\* Variants of export_individual that differ from the code: one leaves a file
\* that exists as it is, the other starts from an emptied directory.
export_individual_keep_existing(dir, schools, wr) ==
    LET written == {k \in DOMAIN schools \ DOMAIN dir : wr[k] # "open"}
    IN  [k \in DOMAIN dir \cup written |->
            IF k \in written
            THEN (IF wr[k] = "ok" THEN schools[k] ELSE Truncated)
            ELSE dir[k]]

export_individual_fresh_dir(dir, schools, wr) ==
    LET written == {k \in DOMAIN schools : wr[k] # "open"}
    IN  [k \in written |-> IF wr[k] = "ok" THEN schools[k] ELSE Truncated]

export_individual(dir, schools, wr) ==
    LET written == {k \in DOMAIN schools : wr[k] # "open"}
    IN  [k \in DOMAIN dir \cup written |->
            IF k \in written
            THEN (IF wr[k] = "ok" THEN schools[k] ELSE Truncated)
            ELSE dir[k]]

\* A variant of export_to_file that differs from the code: the file is opened
\* to append.
export_to_file_append(file, school_data, wr) ==
    IF wr = "ok" THEN file \o <<school_data>>
    ELSE IF wr = "dump" THEN <<TruncatedAggregate>>
    ELSE file

\* export_to_file(school_data, filename): `file` is the file before the call.
export_to_file(file, school_data, wr) ==
    IF wr = "ok" THEN <<school_data>>
    ELSE IF wr = "dump" THEN <<TruncatedAggregate>>
    ELSE file

----------------------------------------------------------------------------
(* Orchestrator *)

\* run(), line 58: `if not cds_code`
missing_cds_code_is_none(school) == school["cds_code"] = None

missing_cds_code(school) == ~Truthy(school["cds_code"])

\* process_school(school_record): the merged record or the exception, and
\* which layers' fetches it called.
process_school(school_record, dResp, aResp) ==
    LET cds_code == school_record["cds_code"]
        details_relative_url == school_record["details_relative_url"]
        details_data ==
            IF Truthy(details_relative_url)
            THEN get_school_details(cds_code, details_relative_url, dResp)
            ELSE Return(EmptyDict)
        additional_data == get_additional_details(cds_code, aResp)
    IN  IF details_data.exc
        THEN [exc |-> TRUE, val |-> None,
              details_called |-> TRUE, additional_called |-> FALSE]
        ELSE IF additional_data.exc
        THEN [exc |-> TRUE, val |-> None,
              details_called |-> Truthy(details_relative_url),
              additional_called |-> TRUE]
        ELSE [exc |-> FALSE,
              val |-> merge_data(school_record, details_data.val,
                                 additional_data.val),
              details_called |-> Truthy(details_relative_url),
              additional_called |-> TRUE]

\* run(), line 77: `idx >= 9`
TestModeLastIdx == 9

\* run(), lines 76-79: whether the loop is left after the listing at idx.
test_mode_break(idx_) == test_mode /\ idx_ >= TestModeLastIdx

\* The labels and values the three layers of the merge are drawn from.
MergeKeys == {"cds_code", "Status", "Enrollment"}

MergeValues == {<<"1">>, <<"2">>}

Fragments ==
    UNION {[ks -> MergeValues] : ks \in SUBSET MergeKeys}

MergeInit ==
    /\ basic \in Fragments
    /\ details \in Fragments
    /\ additional \in Fragments
    /\ merged = EmptyDict
    /\ m_pc = "call"

MergeCall ==
    /\ m_pc = "call"
    /\ merged' = merge_data(basic, details, additional)
    /\ m_pc' = "returned"
    /\ UNCHANGED <<basic, details, additional>>
    /\ UNCHANGED <<ovars, zvars, rvars,
                   avars, evars, xvars, dvars, svars,
                   hvars, pvars, cvars>>

----------------------------------------------------------------------------
(* The listings an Orchestrator.run is given (SchoolListScraper.get_all_schools) *)

MaxListings == 2

CdsCodes == {<<"0", "1">>, <<"0", "2">>}

\* A row of the list table: the CDS cell's text (empty when the cell is), the
\* href of the school's link (None when the cell holds no link).
Listing(cds_code, url) ==
    [cds_code |-> cds_code, details_relative_url |-> url, status |-> <<"A">>]

ListingValues ==
    {Listing(<< >>, None), Listing(<<"0", "1">>, <<"/", "s">>),
     Listing(<<"0", "2">>, None)}

ShortListings == UNION {[1..n -> ListingValues] : n \in 0..MaxListings}

\* The first rows of a directory long enough for test mode's cut to matter.
Filler == [i \in 1..TestModeLastIdx |-> Listing(<< >>, <<"/", "s">>)]

\* Test mode is run on the long directories too.
Directories(test) ==
    IF test THEN ShortListings \cup {Filler \o s : s \in ShortListings}
    ELSE ShortListings

\* What the run did for a listing: its index, whether it was skipped, processed
\* or failed with an exception, which layers were fetched, and which layers'
\* fetch and parse gave a table.
NoListing ==
    [idx |-> -1, kind |-> "none", cds_code |-> None,
     details_called |-> FALSE, additional_called |-> FALSE,
     details_ok |-> FALSE, additional_ok |-> FALSE]

OrchInit ==
    /\ test_mode \in BOOLEAN
    /\ incremental_update \in BOOLEAN
    /\ all_basic_schools \in Directories(test_mode)
    /\ pc = "idle"
    /\ idx = 0
    /\ all_schools_data = EmptyDict
    /\ result = <<"no result">>
    /\ schools_incremental = EmptyDict
    /\ schools_dir = EmptyDict
    /\ all_schools_json = << >>
    /\ n_skipped_warnings = 0
    /\ n_success_infos = 0
    /\ n_errors = 0
    /\ last = NoListing
    /\ restarted = FALSE
    /\ ckpt_before = {}
    /\ write_failed = {}

files == <<schools_incremental, schools_dir, all_schools_json>>

options == <<test_mode, incremental_update, all_basic_schools>>

\* run(), lines 50-53: a run starts, the first one or one started again over
\* the same listings after the first was killed; the files the killed run wrote
\* are there.
RunStart ==
    /\ pc \in {"idle", "killed"}
    /\ restarted' = (pc = "killed")
    /\ pc' = "loop"
    /\ idx' = 0
    /\ all_schools_data' = EmptyDict
    /\ result' = <<"no result">>
    /\ n_skipped_warnings' = 0
    /\ n_success_infos' = 0
    /\ n_errors' = 0
    /\ last' = NoListing
    /\ ckpt_before' = DOMAIN schools_incremental
    /\ write_failed' = {}
    /\ UNCHANGED <<files, options>>
    /\ UNCHANGED <<mvars, zvars, rvars,
                   avars, evars, xvars, dvars, svars,
                   hvars, pvars, cvars>>

\* run(), lines 55-60: the listing at idx has no CDS code.
SkipSchool ==
    /\ pc = "loop"
    /\ idx < Len(all_basic_schools)
    /\ LET school == all_basic_schools[idx + 1]
       IN  /\ missing_cds_code(school)
           /\ last' = [idx |-> idx, kind |-> "skipped",
                       cds_code |-> school["cds_code"],
                       details_called |-> FALSE, additional_called |-> FALSE,
                       details_ok |-> FALSE, additional_ok |-> FALSE]
    /\ n_skipped_warnings' = n_skipped_warnings + 1
    /\ idx' = idx + 1
    /\ UNCHANGED <<pc, all_schools_data, result, files, options, n_success_infos,
                   n_errors, restarted, ckpt_before, write_failed>>
    /\ UNCHANGED <<mvars, zvars, rvars,
                   avars, evars, xvars, dvars, svars,
                   hvars, pvars, cvars>>

\* run(), lines 55-79: the listing at idx is processed and put in the aggregate,
\* and exported at once with incremental_update.
SchoolProcessed ==
    /\ pc = "loop"
    /\ idx < Len(all_basic_schools)
    /\ LET school == all_basic_schools[idx + 1]
           cds_code == school["cds_code"]
       IN  /\ ~missing_cds_code(school)
           /\ \E dResp \in Responses, aResp \in Responses, wr \in WriteOutcomes :
                LET full_data == process_school(school, dResp, aResp)
                IN  /\ ~full_data.exc
                    /\ all_schools_data' =
                          dict_update(all_schools_data, cds_code :> full_data.val)
                    /\ IF incremental_update
                       THEN /\ schools_incremental' =
                                  export_individual(schools_incremental,
                                                    cds_code :> full_data.val,
                                                    cds_code :> wr)
                            /\ write_failed' =
                                  IF wr = "ok" THEN write_failed \ {cds_code}
                                  ELSE write_failed \cup {cds_code}
                       ELSE /\ wr = "ok"
                            /\ UNCHANGED <<schools_incremental, write_failed>>
                    /\ last' = [idx |-> idx, kind |-> "processed",
                                cds_code |-> cds_code,
                                details_called |-> full_data.details_called,
                                additional_called |-> full_data.additional_called,
                                details_ok |-> full_data.details_called
                                               /\ dResp = "table",
                                additional_ok |-> full_data.additional_called
                                                  /\ aResp = "table"]
    /\ n_success_infos' = n_success_infos + 1
    /\ pc' = IF test_mode_break(idx) THEN "export" ELSE "loop"
    /\ idx' = idx + 1
    /\ UNCHANGED <<result, schools_dir, all_schools_json, options,
                   n_skipped_warnings, n_errors, restarted, ckpt_before>>
    /\ UNCHANGED <<mvars, zvars, rvars,
                   avars, evars, xvars, dvars, svars,
                   hvars, pvars, cvars>>

\* run(), lines 55-79: process_school raises; the exception is caught and logged.
SchoolFailed ==
    /\ pc = "loop"
    /\ idx < Len(all_basic_schools)
    /\ LET school == all_basic_schools[idx + 1]
           cds_code == school["cds_code"]
       IN  /\ ~missing_cds_code(school)
           /\ \E dResp \in Responses, aResp \in Responses :
                LET full_data == process_school(school, dResp, aResp)
                IN  /\ full_data.exc
                    /\ last' = [idx |-> idx, kind |-> "failed",
                                cds_code |-> cds_code,
                                details_called |-> full_data.details_called,
                                additional_called |-> full_data.additional_called,
                                details_ok |-> full_data.details_called
                                               /\ dResp = "table",
                                additional_ok |-> full_data.additional_called
                                                  /\ aResp = "table"]
    /\ n_errors' = n_errors + 1
    /\ pc' = IF test_mode_break(idx) THEN "export" ELSE "loop"
    /\ idx' = idx + 1
    /\ UNCHANGED <<all_schools_data, result, files, options, n_skipped_warnings,
                   n_success_infos, restarted, ckpt_before, write_failed>>
    /\ UNCHANGED <<mvars, zvars, rvars,
                   avars, evars, xvars, dvars, svars,
                   hvars, pvars, cvars>>

\* run(), line 55: the listings are exhausted.
LoopExhausted ==
    /\ pc = "loop"
    /\ idx = Len(all_basic_schools)
    /\ pc' = "export"
    /\ UNCHANGED <<idx, all_schools_data, result, files, options,
                   n_skipped_warnings, n_success_infos, n_errors, last, restarted,
                   ckpt_before, write_failed>>
    /\ UNCHANGED <<mvars, zvars, rvars,
                   avars, evars, xvars, dvars, svars,
                   hvars, pvars, cvars>>

\* run(), lines 81-84: the aggregate is exported, as one file and as one file
\* per school; run returns None.
ExportAll ==
    /\ pc = "export"
    /\ \E wr1 \in WriteOutcomes, wr \in [DOMAIN all_schools_data -> WriteOutcomes] :
          /\ all_schools_json' = export_to_file(all_schools_json, all_schools_data, wr1)
          /\ schools_dir' = export_individual(schools_dir, all_schools_data, wr)
    /\ result' = None
    /\ pc' = "done"
    /\ UNCHANGED <<idx, all_schools_data, schools_incremental, options,
                   n_skipped_warnings, n_success_infos, n_errors, last, restarted,
                   ckpt_before, write_failed>>
    /\ UNCHANGED <<mvars, zvars, rvars,
                   avars, evars, xvars, dvars, svars,
                   hvars, pvars, cvars>>

\* The process of the first run is killed while run() is in its loop or about
\* to export: what it held in memory is gone, its files stay.
Terminate ==
    /\ pc \in {"loop", "export"}
    /\ ~restarted
    /\ pc' = "killed"
    /\ idx' = 0
    /\ all_schools_data' = EmptyDict
    /\ n_skipped_warnings' = 0
    /\ n_success_infos' = 0
    /\ n_errors' = 0
    /\ last' = NoListing
    /\ write_failed' = {}
    /\ UNCHANGED <<result, files, options, restarted, ckpt_before>>
    /\ UNCHANGED <<mvars, zvars, rvars,
                   avars, evars, xvars, dvars, svars,
                   hvars, pvars, cvars>>

----------------------------------------------------------------------------
(* Text: the str methods and the regular expressions normalizer.py uses *)

Min(S) == CHOOSE x \in S : \A y \in S : x <= y

Max(S) == CHOOSE x \in S : \A y \in S : x >= y

Digits == {"0", "1", "2", "3", "4", "5", "6", "7", "8", "9"}

WhiteSpace == {" ", "\t", "\n"}

DigitValue(c) ==
    CASE c = "0" -> 0 [] c = "1" -> 1 [] c = "2" -> 2 [] c = "3" -> 3
      [] c = "4" -> 4 [] c = "5" -> 5 [] c = "6" -> 6 [] c = "7" -> 7
      [] c = "8" -> 8 [] c = "9" -> 9

\* str.lower() of one character
lower(c) ==
    CASE c = "A" -> "a" [] c = "B" -> "b" [] c = "C" -> "c" [] c = "D" -> "d"
      [] c = "E" -> "e" [] c = "F" -> "f" [] c = "G" -> "g" [] c = "H" -> "h"
      [] c = "I" -> "i" [] c = "J" -> "j" [] c = "K" -> "k" [] c = "L" -> "l"
      [] c = "M" -> "m" [] c = "N" -> "n" [] c = "O" -> "o" [] c = "P" -> "p"
      [] c = "Q" -> "q" [] c = "R" -> "r" [] c = "S" -> "s" [] c = "T" -> "t"
      [] c = "U" -> "u" [] c = "V" -> "v" [] c = "W" -> "w" [] c = "X" -> "x"
      [] c = "Y" -> "y" [] c = "Z" -> "z" [] OTHER -> c

\* str.isdigit()
str_isdigit(t) == t # << >> /\ \A i \in 1..Len(t) : t[i] \in Digits

\* int(t) of a text of digits
RECURSIVE int_of(_)
int_of(t) ==
    IF t = << >> THEN 0
    ELSE 10 * int_of(SubSeq(t, 1, Len(t) - 1)) + DigitValue(t[Len(t)])

\* str.strip()
str_strip(t) ==
    LET inked == {i \in 1..Len(t) : t[i] \notin WhiteSpace}
    IN  IF inked = {} THEN << >> ELSE SubSeq(t, Min(inked), Max(inked))

\* str.split(): the maximal runs of non-whitespace characters
RECURSIVE str_split(_)
str_split(t) ==
    LET inked == {i \in 1..Len(t) : t[i] \notin WhiteSpace}
    IN  IF inked = {} THEN << >>
        ELSE LET b == Min(inked)
                 gaps == {i \in b..Len(t) : t[i] \in WhiteSpace}
                 e == IF gaps = {} THEN Len(t) ELSE Min(gaps) - 1
             IN  <<SubSeq(t, b, e)>> \o str_split(SubSeq(t, e + 1, Len(t)))

\* sep.join(parts)
RECURSIVE str_join(_, _)
str_join(sep, parts) ==
    IF parts = << >> THEN << >>
    ELSE IF Len(parts) = 1 THEN parts[1]
    ELSE parts[1] \o sep \o str_join(sep, Tail(parts))

\* t.replace(old, ""), old not empty: the occurrences of old are taken from the
\* left, one after the end of the other.
RECURSIVE str_remove(_, _)
str_remove(t, old) ==
    LET starts == {i \in 1..(Len(t) - Len(old) + 1) :
                      SubSeq(t, i, i + Len(old) - 1) = old}
    IN  IF starts = {} THEN t
        ELSE SubSeq(t, 1, Min(starts) - 1)
             \o str_remove(SubSeq(t, Min(starts) + Len(old), Len(t)), old)

\* Whether the phrase p (in lower case) is at position i of t, whatever the case.
phrase_at(t, i, p) ==
    /\ i + Len(p) - 1 <= Len(t)
    /\ \A k \in 1..Len(p) : lower(t[i + k - 1]) = p[k]

\* clean_text's removals: a phrase, and what may follow it (Google Map(?: Link)?)
removals ==
    << [phrase |-> <<"l", "i", "n", "k", " ", "o", "p", "e", "n", "s", " ", "n", "e", "w", " ", "b", "r", "o", "w", "s", "e", "r", " ", "t", "a", "b">>, opt |-> << >>],
       [phrase |-> <<"g", "o", "o", "g", "l", "e", " ", "m", "a", "p">>, opt |-> <<" ", "l", "i", "n", "k">>],
       [phrase |-> <<"l", "i", "n", "k", " ", "o", "p", "e", "n", "s", " ", "n", "e", "w", " ", "e", "m", "a", "i", "l">>, opt |-> << >>] >>

\* The length of the pattern's match at position i of t, 0 when there is none.
removal_match(t, i, pattern) ==
    IF phrase_at(t, i, pattern.phrase)
    THEN Len(pattern.phrase) +
         (IF pattern.opt # << >> /\ phrase_at(t, i + Len(pattern.phrase), pattern.opt)
          THEN Len(pattern.opt) ELSE 0)
    ELSE 0

\* re.sub(pattern, '', t, flags=re.IGNORECASE): the matches are taken from the
\* left, one after the end of the other.
RECURSIVE re_sub_remove(_, _)
re_sub_remove(t, pattern) ==
    LET starts == {i \in 1..Len(t) : removal_match(t, i, pattern) > 0}
    IN  IF starts = {} THEN t
        ELSE LET b == Min(starts)
             IN  SubSeq(t, 1, b - 1)
                 \o re_sub_remove(SubSeq(t, b + removal_match(t, b, pattern), Len(t)),
                                  pattern)

clean_text(text) ==
    IF ~Truthy(text) THEN << >>
    ELSE str_strip(re_sub_remove(re_sub_remove(re_sub_remove(text, removals[1]),
                                               removals[2]), removals[3]))

digits_at(t, i, n) ==
    /\ i + n - 1 <= Len(t)
    /\ \A k \in i..(i + n - 1) : t[k] \in Digits

\* The first position from i on that holds no whitespace (Len(t) + 1 if none).
skip_space(t, i) ==
    LET inked == {k \in i..Len(t) : t[k] \notin WhiteSpace}
    IN  IF inked = {} THEN Len(t) + 1 ELSE Min(inked)

\* \(\d{3}\)\s*\d{3}-\d{4} at position i: the position of the match's last
\* character, 0 when it does not match there.
phone_end(t, i) ==
    IF /\ i + 4 <= Len(t)
       /\ t[i] = "("
       /\ digits_at(t, i + 1, 3)
       /\ t[i + 4] = ")"
    THEN LET j == skip_space(t, i + 5)
         IN  IF /\ digits_at(t, j, 3)
                /\ j + 3 <= Len(t)
                /\ t[j + 3] = "-"
                /\ digits_at(t, j + 4, 4)
             THEN j + 7 ELSE 0
    ELSE 0

\* re.search of the phone pattern: <<start, end>> of the leftmost match, or
\* <<0, 0>>.
phone_search(t) ==
    LET starts == {i \in 1..Len(t) : phone_end(t, i) > 0}
    IN  IF starts = {} THEN <<0, 0>>
        ELSE <<Min(starts), phone_end(t, Min(starts))>>

\* The last position of the run of non-whitespace characters that starts at i.
run_end(t, i) ==
    LET gaps == {k \in i..Len(t) : t[k] \in WhiteSpace}
    IN  IF gaps = {} THEN Len(t) ELSE Min(gaps) - 1

\* \S+@\S+ matches from position i: i starts a run of non-whitespace characters
\* that holds an "@" with a character before it and one after it; the match is
\* then the whole run.
email_at(t, i) ==
    /\ t[i] \notin WhiteSpace
    /\ (i = 1 \/ t[i - 1] \in WhiteSpace)
    /\ \E k \in (i + 1)..(run_end(t, i) - 1) : t[k] = "@"

\* re.split(r'(\S+@\S+)', t): the texts around the matches and the matches, in
\* turn.
RECURSIVE re_split_emails(_)
re_split_emails(t) ==
    LET starts == {i \in 1..Len(t) : email_at(t, i)}
    IN  IF starts = {} THEN <<t>>
        ELSE LET b == Min(starts)
                 e == run_end(t, b)
             IN  <<SubSeq(t, 1, b - 1), SubSeq(t, b, e)>>
                 \o re_split_emails(SubSeq(t, e + 1, Len(t)))

----------------------------------------------------------------------------
(* SchoolDataNormalizer: its helper methods *)

\* get_value(data, keys): the value of the first of the keys that the record
\* holds with a true value, None if there is none.
get_value(data, keys) ==
    LET hits == {i \in 1..Len(keys) :
                    keys[i] \in DOMAIN data /\ Truthy(data[keys[i]])}
    IN  IF hits = {} THEN None ELSE data[keys[Min(hits)]]

try_int(value) ==
    IF Truthy(value) /\ str_isdigit(value) THEN PyInt(int_of(value)) ELSE value

\* t without its trailing "0" characters
RECURSIVE rstrip_zeros(_)
rstrip_zeros(t) ==
    IF t # << >> /\ t[Len(t)] = "0" THEN rstrip_zeros(SubSeq(t, 1, Len(t) - 1))
    ELSE t

\* float(t) of a text of digits and points: a value, or ValueError.  A float is
\* kept as its whole part and its decimals.
float_of(t) ==
    LET points == {i \in 1..Len(t) : t[i] = "."}
    IN  IF Cardinality(points) > 1 \/ Cardinality(points) = Len(t) THEN Raise
        ELSE IF points = {} THEN Return(<<"float", int_of(t), << >>>>)
        ELSE LET p == Min(points)
             IN  Return(<<"float", int_of(SubSeq(t, 1, p - 1)),
                          rstrip_zeros(SubSeq(t, p + 1, Len(t)))>>)

\* (\d+)\s*\(\s*([\d.]+) from position i, i the first of a run of digits:
\* <<end of group 1, start of group 2, end of group 2>>, or <<0, 0, 0>>.
ell_match(t, i) ==
    LET others == {k \in i..Len(t) : t[k] \notin Digits}
        e1 == IF others = {} THEN Len(t) ELSE Min(others) - 1
        p == skip_space(t, e1 + 1)
        b2 == skip_space(t, p + 1)
        rest == {k \in b2..Len(t) : t[k] \notin Digits \cup {"."}}
        e2 == IF rest = {} THEN Len(t) ELSE Min(rest) - 1
    IN  IF /\ t[i] \in Digits
           /\ p <= Len(t)
           /\ t[p] = "("
           /\ b2 <= e2
        THEN <<e1, b2, e2>> ELSE <<0, 0, 0>>

parse_english_language_learners(value) ==
    IF ~Truthy(value) THEN Return(value)
    ELSE LET starts == {i \in 1..Len(value) : ell_match(value, i)[1] > 0}
         IN  IF starts = {} THEN Return(value)
             ELSE LET b == Min(starts)
                      m == ell_match(value, b)
                      percentage == float_of(SubSeq(value, m[2], m[3]))
                  IN  IF percentage.exc THEN Raise
                      ELSE Return(PyDict([Count |-> PyInt(int_of(SubSeq(value, b, m[1]))),
                                          Percentage |-> percentage.val]))

\* A variant of administrator that differs from the code: the "0" tokens stay.
administrator_keeps_zero(text_before_, email_) ==
    LET email == str_strip(email_)
        text_before == str_strip(text_before_)
        m == phone_search(text_before)
        phone == IF m[1] > 0 THEN SubSeq(text_before, m[1], m[2]) ELSE << >>
        name_text == IF phone # << >>
                     THEN str_strip(str_remove(text_before, phone))
                     ELSE text_before
    IN  PyDict(("Name & Position" :> str_strip(str_join(<<" ">>, str_split(name_text))))
               @@ ("Phone" :> phone)
               @@ ("Email" :> email))

\* One administrator: the text before its email and the email.
administrator(text_before_, email_) ==
    LET email == str_strip(email_)
        text_before == str_strip(text_before_)
        m == phone_search(text_before)
        phone == IF m[1] > 0 THEN SubSeq(text_before, m[1], m[2]) ELSE << >>
        name_text == IF phone # << >>
                     THEN str_strip(str_remove(text_before, phone))
                     ELSE text_before
        tokens == SelectSeq(str_split(name_text), LAMBDA tok : tok # <<"0">>)
    IN  PyDict(("Name & Position" :> str_strip(str_join(<<" ">>, tokens)))
               @@ ("Phone" :> phone)
               @@ ("Email" :> email))

parse_administrators(admin_str) ==
    IF ~Truthy(admin_str) THEN PyList(<< >>)
    ELSE LET parts == re_split_emails(clean_text(admin_str))
         IN  PyList([n \in 1..((Len(parts) - 1) \div 2) |->
                        administrator(parts[2 * n - 1], parts[2 * n])])

parse_cds_coordinator(coord_str) ==
    IF ~Truthy(coord_str) THEN PyDict(EmptyDict)
    ELSE LET s == clean_text(coord_str)
             m == phone_search(s)
         IN  PyDict([Name |-> IF m[1] > 0 THEN str_strip(SubSeq(s, 1, m[1] - 1))
                              ELSE s,
                     Phone |-> IF m[1] > 0 THEN SubSeq(s, m[1], m[2]) ELSE << >>])

\* What usaddress.tag answers for an address: the tagged parts, or
\* RepeatedLabelError.
tagged_get(tagged_address, label) ==
    IF label \in DOMAIN tagged_address THEN tagged_address[label] ELSE << >>

\* A variant of extract_address_components that differs from the code: on
\* RepeatedLabelError it returns the address as it was given.
extract_address_components_raw(address_str, tag) ==
    IF ~Truthy(address_str) THEN << << >>, << >>, << >>, << >>, << >> >>
    ELSE IF tag.exc THEN <<address_str, << >>, << >>, << >>, << >>>>
    ELSE << str_strip(str_join(<<" ">>,
               << tagged_get(tag.val, "AddressNumber"),
                  tagged_get(tag.val, "StreetName"),
                  tagged_get(tag.val, "StreetNamePostType") >>)),
            str_strip(str_join(<<" ">>,
               << tagged_get(tag.val, "OccupancyType"),
                  tagged_get(tag.val, "OccupancyIdentifier") >>)),
            tagged_get(tag.val, "PlaceName"),
            tagged_get(tag.val, "StateName"),
            tagged_get(tag.val, "ZipCode") >>

extract_address_components(address_str, tag) ==
    IF ~Truthy(address_str) THEN << << >>, << >>, << >>, << >>, << >> >>
    ELSE LET s == clean_text(address_str)
         IN  IF tag.exc THEN <<s, << >>, << >>, << >>, << >>>>
             ELSE << str_strip(str_join(<<" ">>,
                        << tagged_get(tag.val, "AddressNumber"),
                           tagged_get(tag.val, "StreetName"),
                           tagged_get(tag.val, "StreetNamePostType") >>)),
                     str_strip(str_join(<<" ">>,
                        << tagged_get(tag.val, "OccupancyType"),
                           tagged_get(tag.val, "OccupancyIdentifier") >>)),
                     tagged_get(tag.val, "PlaceName"),
                     tagged_get(tag.val, "StateName"),
                     tagged_get(tag.val, "ZipCode") >>

----------------------------------------------------------------------------
(* SchoolDataNormalizer.normalize_school_data *)

\* The record of lines 78-160, one field per assignment; the call raises when
\* parse_english_language_learners does.
normalize_school_data(raw_data, tag) ==
    LET cds == get_value(raw_data, <<"cds_code", "CDS Code">>)
        ell == parse_english_language_learners(
                   get_value(raw_data, <<"English Language Learners">>))
        full_addr == clean_text(get_value(raw_data, <<"School Address", "Address">>))
        addr == extract_address_components(full_addr, tag)
        email_val == get_value(raw_data, <<"Email">>)
    IN  IF ell.exc THEN Raise
        ELSE Return(
            ("CDS Code" :> IF Truthy(cds) THEN str_remove(cds, <<" ">>) ELSE cds)
         @@ ("County" :> get_value(raw_data, <<"county", "County">>))
         @@ ("District" :> get_value(raw_data, <<"district", "District">>))
         @@ ("School" :> get_value(raw_data, <<"school", "School">>))
         @@ ("School Type" :> get_value(raw_data, <<"school_type", "School Type">>))
         @@ ("Sector Type" :> get_value(raw_data, <<"sector_type">>))
         @@ ("Charter School" :> get_value(raw_data, <<"charter", "Charter School">>))
         @@ ("Status" :> get_value(raw_data, <<"status", "Status">>))
         @@ ("Open Date" :> get_value(raw_data, <<"Open Date">>))
         @@ ("Educational Program Type" :>
                get_value(raw_data, <<"Educational Program Type">>))
         @@ ("Low Grade" :> try_int(get_value(raw_data, <<"Low Grade">>)))
         @@ ("High Grade" :> try_int(get_value(raw_data, <<"High Grade">>)))
         @@ ("Public School" :> get_value(raw_data, <<"Public School">>))
         @@ ("Charter Number" :> get_value(raw_data, <<"Charter Number">>))
         @@ ("Charter Funding Type" :> get_value(raw_data, <<"Charter Funding Type">>))
         @@ ("Magnet School" :> get_value(raw_data, <<"Magnet", "Magnet School">>))
         @@ ("Year Round" :> get_value(raw_data, <<"Year Round">>))
         @@ ("Virtual Instruction" :> get_value(raw_data, <<"Virtual Instruction">>))
         @@ ("Multilingual Instruction" :>
                get_value(raw_data, <<"Multilingual Instruction">>))
         @@ ("Federal Charter District ID" :>
                get_value(raw_data, <<"Federal Charter District ID">>))
         @@ ("NCES Federal School ID" :>
                get_value(raw_data, <<"NCES/Federal School ID">>))
         @@ ("Enrollment" :> try_int(get_value(raw_data, <<"Enrollment">>)))
         @@ ("English Language Learners" :> ell.val)
         @@ ("Full Address" :> full_addr)
         @@ ("Street Address" :> addr[1])
         @@ ("Address Line 2" :> addr[2])
         @@ ("City" :> addr[3])
         @@ ("State" :> addr[4])
         @@ ("Zip Code" :> addr[5])
         @@ ("Mailing Address" :> clean_text(get_value(raw_data, <<"Mailing Address">>)))
         @@ ("Phone Number" :> get_value(raw_data, <<"Phone Number", "Phone">>))
         @@ ("Fax Number" :> get_value(raw_data, <<"Fax Number">>))
         @@ ("Email" :> IF Truthy(email_val) THEN clean_text(email_val) ELSE << >>)
         @@ ("Web Address" :> clean_text(get_value(raw_data, <<"Web Address", "Web site*">>)))
         @@ ("Administrators" :> parse_administrators(get_value(raw_data, <<"Administrator">>)))
         @@ ("CDS Coordinator" :>
                parse_cds_coordinator(
                    get_value(raw_data, <<"CDS Coordinator (Contact for Data Updates)">>)))
         @@ ("Last Updated" :> get_value(raw_data, <<"Last Updated">>)))

\* The keys normalize_school_data assigns.
NormKeys ==
    { "CDS Code", "County", "District", "School", "School Type", "Sector Type",
      "Charter School", "Status", "Open Date", "Educational Program Type",
      "Low Grade", "High Grade", "Public School", "Charter Number",
      "Charter Funding Type", "Magnet School", "Year Round",
      "Virtual Instruction", "Multilingual Instruction",
      "Federal Charter District ID", "NCES Federal School ID", "Enrollment",
      "English Language Learners", "Full Address", "Street Address",
      "Address Line 2", "City", "State", "Zip Code", "Mailing Address",
      "Phone Number", "Fax Number", "Email", "Web Address", "Administrators",
      "CDS Coordinator", "Last Updated" }

\* What usaddress.tag can answer: RepeatedLabelError, or the parts it tagged.
TaggerOutcomes ==
    { Raise,
      Return(("AddressNumber" :> <<"1">>) @@ ("StreetName" :> <<"M", "a", "i", "n">>)
             @@ ("StreetNamePostType" :> <<"S", "t">>) @@ ("PlaceName" :> <<"A", "l", "a", "m", "e", "d", "a">>)
             @@ ("StateName" :> <<"C", "A">>) @@ ("ZipCode" :> <<"9", "4", "5", "0", "1">>)),
      Return(("StreetName" :> <<"M", "a", "i", "n">>) @@ ("PlaceName" :> <<"A", "l", "a", "m", "e", "d", "a">>)) }

----------------------------------------------------------------------------
(* normalize_school_data as a function under test: the raw records *)

Absent == <<"absent">>

\* The record that holds the labels whose choice is not Absent.
RawRecord(choice) ==
    [l \in {k \in DOMAIN choice : choice[k] # Absent} |-> choice[l]]

CoordinatorLabel == "CDS Coordinator (Contact for Data Updates)"

CdsChoices == {Absent, <<"0", "1", " ", "2">>}

EllChoices == {Absent, <<"N", "/", "A">>, <<"4", "3", " ", "(", "1", "9", ".", "3", " ", "%", ")">>, <<"1", "2", " ", "(", "1", ".", "2", ".", "3", " ", "%", ")">>}

AdministratorChoices ==
    { Absent, << >>,
      <<"J", "a", "n", "e", " ", "D", "o", "e", " ", "P", "r", "i", "n", "c", "i", "p", "a", "l", " ", "(", "5", "5", "5", ")", " ", "1", "2", "3", "-", "4", "5", "6", "7", " ", "j", "a", "n", "e", "@", "s", "c", "h", "o", "o", "l", ".", "o", "r", "g">>,
      <<"A", "l", " ", "R", "o", "e", " ", "0", " ", "(", "5", "5", "5", ")", " ", "1", "2", "3", "-", "4", "5", "6", "7", " ", "a", "l", "@", "s", ".", "o", "r", "g", " ", "L", "i", "n", "k", " ", "o", "p", "e", "n", "s", " ", "n", "e", "w", " ", "E", "m", "a", "i", "l", " ", "B", "o", " ", "P", "o", "e", " ", "b", "o", "@", "s", ".", "o", "r", "g">> }

CoordinatorChoices ==
    {Absent, << >>, <<"A", "b", "e", " ", "Z", "a", "m", "o", "r", "a", " ", "(", "5", "1", "0", ")", " ", "6", "7", "0", "-", "4", "1", "3", "1", " ", "R", "e", "q", "u", "e", "s", "t", " ", "D", "a", "t", "a", " ", "U", "p", "d", "a", "t", "e", "(", "s", ")">>, <<"A", "b", "e", " ", "Z", "a", "m", "o", "r", "a">>}

AddressChoices == {Absent, <<"1", " ", "M", "a", "i", "n", " ", "S", "t", " ", "A", "l", "a", "m", "e", "d", "a", ",", " ", "C", "A", " ", "9", "4", "5", "0", "1", " ", "G", "o", "o", "g", "l", "e", " ", "M", "a", "p", " ", "L", "i", "n", "k", " ", "o", "p", "e", "n", "s", " ", "n", "e", "w", " ", "b", "r", "o", "w", "s", "e", "r", " ", "t", "a", "b">>}

EnrollmentChoices == {Absent, <<"4", "3">>, <<"n", "/", "a">>}

RawRecords ==
    { RawRecord(("CDS Code" :> c) @@ ("English Language Learners" :> e)
                @@ ("Administrator" :> a) @@ (CoordinatorLabel :> k)
                @@ ("School Address" :> s) @@ ("Enrollment" :> n)) :
        c \in CdsChoices, e \in EllChoices, a \in AdministratorChoices,
        k \in CoordinatorChoices, s \in AddressChoices, n \in EnrollmentChoices }

NormalizeInit ==
    /\ raw \in RawRecords
    /\ normalized = Raise
    /\ nz_pc = "call"

NormalizeCall ==
    /\ nz_pc = "call"
    /\ \E tag \in TaggerOutcomes :
          normalized' = normalize_school_data(raw, tag)
    /\ nz_pc' = "returned"
    /\ UNCHANGED raw
    /\ UNCHANGED <<mvars, ovars, rvars,
                   avars, evars, xvars, dvars, svars,
                   hvars, pvars, cvars>>

----------------------------------------------------------------------------
(* SchoolDataNormalizer.run over the files of its input directory *)

MaxFiles == 3

FileNames == <<"01.json", "02.json", "03.json", "04.json">>

\* A file that json.load rejects, and the files of well-formed raw records.
Unreadable == [readable |-> FALSE, data |-> EmptyDict]

JsonFile(data) == [readable |-> TRUE, data |-> data]

RunSamples ==
    { Unreadable,
      JsonFile(("cds_code" :> <<"0", "1">>) @@ ("English Language Learners" :> <<"4", "3", " ", "(", "1", "9", ".", "3", " ", "%", ")">>)
               @@ ("School Address" :> <<"1", " ", "M", "a", "i", "n", " ", "S", "t", " ", "A", "l", "a", "m", "e", "d", "a", ",", " ", "C", "A", " ", "9", "4", "5", "0", "1">>)),
      JsonFile(("cds_code" :> <<"0", "2">>) @@ ("English Language Learners" :> <<"1", "2", " ", "(", "1", ".", "2", ".", "3", " ", "%", ")">>)) }

InputDirs ==
    UNION { [{FileNames[i] : i \in 1..n} -> RunSamples] : n \in 0..MaxFiles }

\* A file written by the normalizer: json.dump into open(output_file, 'w').
write_json(dir, name, data, wr) ==
    IF wr = "open" THEN dir
    ELSE [k \in DOMAIN dir \cup {name} |->
             IF k = name THEN (IF wr = "ok" THEN data ELSE Truncated) ELSE dir[k]]

NormRunInit ==
    /\ input_dir \in InputDirs
    /\ output_dir = EmptyDict
    /\ glob_left = DOMAIN input_dir
    /\ nr_pc = "loop"
    /\ nr_read_errors = 0

\* run(), lines 52-58: the next file of the glob cannot be read.
NormReadError ==
    /\ nr_pc = "loop"
    /\ \E json_file \in glob_left :
          /\ ~input_dir[json_file].readable
          /\ glob_left' = glob_left \ {json_file}
    /\ nr_read_errors' = nr_read_errors + 1
    /\ UNCHANGED <<input_dir, output_dir, nr_pc>>
    /\ UNCHANGED <<mvars, ovars, zvars,
                   avars, evars, xvars, dvars, svars,
                   hvars, pvars, cvars>>

\* run(), lines 52-70: the next file is read, normalized and written.
NormFileDone ==
    /\ nr_pc = "loop"
    /\ \E json_file \in glob_left, tag \in TaggerOutcomes, wr \in WriteOutcomes :
          LET normalized_data == normalize_school_data(input_dir[json_file].data, tag)
          IN  /\ input_dir[json_file].readable
              /\ ~normalized_data.exc
              /\ output_dir' = write_json(output_dir, json_file, normalized_data.val, wr)
              /\ glob_left' = glob_left \ {json_file}
    /\ UNCHANGED <<input_dir, nr_pc, nr_read_errors>>
    /\ UNCHANGED <<mvars, ovars, zvars,
                   avars, evars, xvars, dvars, svars,
                   hvars, pvars, cvars>>

\* run(), line 61: normalize_school_data raises, outside any try: run() ends
\* with the exception.
NormFileRaises ==
    /\ nr_pc = "loop"
    /\ \E json_file \in glob_left, tag \in TaggerOutcomes :
          /\ input_dir[json_file].readable
          /\ normalize_school_data(input_dir[json_file].data, tag).exc
          /\ glob_left' = glob_left \ {json_file}
    /\ nr_pc' = "raised"
    /\ UNCHANGED <<input_dir, output_dir, nr_read_errors>>
    /\ UNCHANGED <<mvars, ovars, zvars,
                   avars, evars, xvars, dvars, svars,
                   hvars, pvars, cvars>>

\* run(), line 72: the glob is exhausted.
NormRunCompleted ==
    /\ nr_pc = "loop"
    /\ glob_left = {}
    /\ nr_pc' = "completed"
    /\ UNCHANGED <<input_dir, output_dir, glob_left, nr_read_errors>>
    /\ UNCHANGED <<mvars, ovars, zvars,
                   avars, evars, xvars, dvars, svars,
                   hvars, pvars, cvars>>

----------------------------------------------------------------------------
(* parse_administrators as a function under test: the texts *)

MaxPieces == 3

\* What an Administrator field is made of: name tokens, the stray "0", a phone,
\* emails, a token with an "@" that is no email, and a label of the markup.
AdminPieces ==
    { <<"A", "l">>, <<"0">>, <<"(", "5", "5", "5", ")", " ", "1", "2", "3", "-", "4", "5", "6", "7">>, <<"a", "@", "b", ".", "c">>, <<"j", "o", "@", "s", ".", "o", "r", "g">>, <<"x", "@">>,
      <<"L", "i", "n", "k", " ", "o", "p", "e", "n", "s", " ", "n", "e", "w", " ", "E", "m", "a", "i", "l">> }

AdminTexts ==
    { str_join(<<" ">>, ps) : ps \in UNION {[1..n -> AdminPieces] : n \in 0..MaxPieces} }
    \cup { <<"J", "a", "n", "e", " ", "D", "o", "e", " ", "P", "r", "i", "n", "c", "i", "p", "a", "l", " ", "(", "5", "5", "5", ")", " ", "1", "2", "3", "-", "4", "5", "6", "7", " ", "j", "a", "n", "e", "@", "s", "c", "h", "o", "o", "l", ".", "o", "r", "g">> }

AdminsInit ==
    /\ pa_text \in AdminTexts
    /\ pa_admins = PyList(<< >>)
    /\ pa_pc = "call"

ParseAdministratorsCall ==
    /\ pa_pc = "call"
    /\ pa_admins' = parse_administrators(pa_text)
    /\ pa_pc' = "returned"
    /\ UNCHANGED pa_text
    /\ UNCHANGED <<mvars, ovars, zvars, rvars, evars, xvars, dvars, svars,
                   hvars, pvars, cvars>>

----------------------------------------------------------------------------
(* parse_english_language_learners as a function under test: the values *)

\* An English Language Learners field: a count, what separates it from the
\* percentage, the percentage, and the rest; or "N/A", or no value.
EllValues ==
    { c \o s \o p \o <<" ", "%", ")">> :
        c \in {<<"4", "3">>, <<"0">>, <<"x">>, << >>},
        s \in {<<" ", "(">>, <<"(">>, <<" ", "(", " ">>, <<" ">>},
        p \in {<<"1", "9", ".", "3">>, <<"7">>, <<".", "5">>, <<"1", ".", "2", ".", "3">>, <<".">>, << >>} }
    \cup {<<"N", "/", "A">>, << >>, None}

EllInit ==
    /\ pe_value \in EllValues
    /\ pe_result = Return(None)
    /\ pe_pc = "call"

ParseEllCall ==
    /\ pe_pc = "call"
    /\ pe_result' = parse_english_language_learners(pe_value)
    /\ pe_pc' = "returned"
    /\ UNCHANGED pe_value
    /\ UNCHANGED <<mvars, ovars, zvars, rvars, avars, xvars, dvars, svars,
                   hvars, pvars, cvars>>

----------------------------------------------------------------------------
(* extract_address_components as a function under test: the addresses *)

\* An address field: blanks, the address, a label of the markup; or an empty
\* or absent value.
AddressTexts ==
    { b \o a \o l :
        b \in {<< >>, <<" ", " ">>},
        a \in {<<"1", " ", "M", "a", "i", "n", " ", "S", "t", " ", "A", "l", "a", "m", "e", "d", "a", ",", " ", "C", "A", " ", "9", "4", "5", "0", "1">>, <<"P", "O", " ", "B", "o", "x", " ", "7">>, <<"M", "a", "i", "n", " ", "M", "a", "i", "n">>},
        l \in {<< >>, <<" ", "G", "o", "o", "g", "l", "e", " ", "M", "a", "p">>, <<" ", "G", "o", "o", "g", "l", "e", " ", "M", "a", "p", " ", "L", "i", "n", "k">>, <<" ", "G", "O", "O", "G", "L", "E", " ", "M", "A", "P", " ", "L", "I", "N", "K", " ", "x">>,
               <<" ", "L", "i", "n", "k", " ", "o", "p", "e", "n", "s", " ", "n", "e", "w", " ", "b", "r", "o", "w", "s", "e", "r", " ", "t", "a", "b">>} }
    \cup {<<"G", "o", "o", "g", "l", "e", " ", "M", "a", "p">>, << >>, None}

AddressInit ==
    /\ addr_in \in AddressTexts
    /\ addr_tag = Raise
    /\ addr_out = << >>
    /\ ea_pc = "call"

\* The call, with what usaddress.tag answers in it (when it is called).
ExtractAddressCall ==
    /\ ea_pc = "call"
    /\ \E tag \in TaggerOutcomes :
          /\ addr_tag' = tag
          /\ addr_out' = extract_address_components(addr_in, tag)
    /\ ea_pc' = "returned"
    /\ UNCHANGED addr_in
    /\ UNCHANGED <<mvars, ovars, zvars, rvars, avars, evars, dvars, svars,
                   hvars, pvars, cvars>>

----------------------------------------------------------------------------
(* Python floats that come from a division: kept exactly, as a quotient in    *)
(* lowest terms <<"quot", n, d>> with d > 0                                   *)

Abs(n) == IF n < 0 THEN -n ELSE n

RECURSIVE gcd(_, _)
gcd(a, b) == IF b = 0 THEN a ELSE gcd(b, a % b)

PyQuot(n, d) ==
    LET g == gcd(Abs(n), Abs(d))
        s == IF d < 0 THEN -1 ELSE 1
    IN  <<"quot", (s * n) \div g, (s * d) \div g>>

\* a / b on two ints: ZeroDivisionError when b is 0.
py_div(a, b) == IF b = 0 THEN Raise ELSE Return(PyQuot(a, b))

----------------------------------------------------------------------------
(* DemographicCalculator *)

\* An entry of city_data, as _load_city_data builds it (lines 77-80).
CityEntry(total_pop, black_pop) ==
    [total_population |-> total_pop, black_population |-> black_pop]

\* A variant of _enrich_single_file's ratio that differs from the code: the
\* total is not looked at before the division.
black_population_ratio_unguarded(school_data, cities) ==
    LET city == IF "City" \in DOMAIN school_data THEN school_data["City"] ELSE None
    IN  IF Truthy(city) /\ city \in DOMAIN cities
        THEN LET total == cities[city].total_population
                 black == cities[city].black_population
             IN  IF total # None /\ black # None
                 THEN py_div(black[2], total[2])
                 ELSE Return(None)
        ELSE Return(None)

\* _enrich_single_file, lines 97-105: the ratio of the record's city.
black_population_ratio(school_data, cities) ==
    LET city == IF "City" \in DOMAIN school_data THEN school_data["City"] ELSE None
    IN  IF Truthy(city) /\ city \in DOMAIN cities
        THEN LET total == cities[city].total_population
                 black == cities[city].black_population
             IN  IF Truthy(total) /\ total # PyInt(0) /\ black # None
                 THEN py_div(black[2], total[2])
                 ELSE Return(None)
        ELSE Return(None)

\* _enrich_single_file, lines 97-108: the record with its ratio injected.
enrich_record(school_data, cities) ==
    LET ratio == black_population_ratio(school_data, cities)
    IN  IF ratio.exc THEN Raise
        ELSE Return(dict_update(school_data, "Black Population Ratio" :> ratio.val))

\* The cities of the table and the counts a row can hold after _try_int.
TableCities == {<< >>, <<"A", "l", "a", "m", "e", "d", "a">>}

TotalCounts == {None, PyInt(0), PyInt(2), PyInt(4)}

BlackCounts == {None, PyInt(0), PyInt(1)}

CityTables ==
    UNION { [cs -> {CityEntry(t, b) : t \in TotalCounts, b \in BlackCounts}] :
              cs \in SUBSET TableCities }

\* The normalized records: the City field absent, null, empty, a city of the
\* table, the same city with a blank before it, a city the table does not hold.
EnrichRecords ==
    { RawRecord(("CDS Code" :> <<"0", "1">>) @@ ("City" :> c)) :
        c \in {Absent, None, << >>, <<"A", "l", "a", "m", "e", "d", "a">>, <<" ", "A", "l", "a", "m", "e", "d", "a">>, <<"A", "l", "b", "a", "n", "y">>} }

EnrichInit ==
    /\ city_data \in CityTables
    /\ en_school \in EnrichRecords
    /\ en_out = Return(EmptyDict)
    /\ en_pc = "call"

EnrichSingleFile ==
    /\ en_pc = "call"
    /\ en_out' = enrich_record(en_school, city_data)
    /\ en_pc' = "returned"
    /\ UNCHANGED <<city_data, en_school>>
    /\ UNCHANGED <<mvars, ovars, zvars, rvars, avars, evars, xvars, svars,
                   hvars, pvars, cvars>>

----------------------------------------------------------------------------
(* Floats and ints of the ranking stage *)

Zero == PyQuot(0, 1)

Half == PyQuot(1, 2)

\* x + y and x * y on two floats, x <= y on two floats
quot_add(x, y) == PyQuot(x[2] * y[3] + y[2] * x[3], x[3] * y[3])

quot_mul(x, y) == PyQuot(x[2] * y[2], x[3] * y[3])

quot_le(x, y) == x[2] * y[3] <= y[2] * x[3]

RECURSIVE pow10(_)
pow10(n) == IF n = 0 THEN 1 ELSE 10 * pow10(n - 1)

\* int(text): blanks around an optional sign and digits; ValueError otherwise.
int_of_text(t) ==
    LET s == str_strip(t)
        signed == s # << >> /\ s[1] \in {"-", "+"}
        body == IF signed THEN Tail(s) ELSE s
    IN  IF str_isdigit(body)
        THEN Return(PyInt(IF signed /\ s[1] = "-" THEN -int_of(body) ELSE int_of(body)))
        ELSE Raise

\* float(text): blanks around an optional sign and digits with at most one
\* point; ValueError otherwise (the texts of the model hold no exponent, "nan"
\* or "inf").
float_of_text(t) ==
    LET s == str_strip(t)
        signed == s # << >> /\ s[1] \in {"-", "+"}
        body == IF signed THEN Tail(s) ELSE s
        f == float_of(body)
    IN  IF body = << >> \/ \E i \in 1..Len(body) : body[i] \notin Digits \cup {"."}
        THEN Raise
        ELSE IF f.exc THEN Raise
        ELSE LET n == f.val[2] * pow10(Len(f.val[3])) + int_of(f.val[3])
             IN  Return(PyQuot(IF signed /\ s[1] = "-" THEN -n ELSE n,
                               pow10(Len(f.val[3]))))

\* Whether a value is a str.
is_text(v) == v = << >> \/ (v[1] \notin {"None", "int", "float", "quot", "dict", "list"})

\* dict.get(key, default)
dict_get(d, key, default) == IF key \in DOMAIN d THEN d[key] ELSE default

----------------------------------------------------------------------------
(* SpreadsheetBuilder *)

\* _safe_int(value): int(value), 0 when it raises ValueError or TypeError.
safe_int(value) ==
    IF value = << >> THEN PyInt(0)
    ELSE IF value[1] = "int" THEN value
    ELSE IF value[1] = "quot"
    THEN PyInt(IF value[2] < 0 THEN -((-value[2]) \div value[3])
               ELSE value[2] \div value[3])
    ELSE IF is_text(value)
    THEN (IF int_of_text(value).exc THEN PyInt(0) ELSE int_of_text(value).val)
    ELSE PyInt(0)

\* _safe_float(value): float(value), 0.0 when it raises ValueError or TypeError.
safe_float(value) ==
    IF value = << >> THEN Zero
    ELSE IF value[1] = "int" THEN PyQuot(value[2], 1)
    ELSE IF value[1] = "quot" THEN value
    ELSE IF is_text(value)
    THEN (IF float_of_text(value).exc THEN Zero ELSE float_of_text(value).val)
    ELSE Zero

\* _load_json_files, lines 90-94: the record of one file, its two numeric
\* fields converted.
load_record(data) ==
    dict_update(data,
        ("Enrollment" :> safe_int(dict_get(data, "Enrollment", PyInt(0))))
        @@ ("Black Population Ratio" :>
               safe_float(dict_get(data, "Black Population Ratio", PyInt(0)))))

\* _load_json_files: the records of the files that can be read, in listdir
\* order.
RECURSIVE load_json_files(_)
load_json_files(fs) ==
    IF fs = << >> THEN << >>
    ELSE (IF fs[1].readable THEN <<load_record(fs[1].data)>> ELSE << >>)
         \o load_json_files(Tail(fs))

\* str(value) of a flag value: a str is itself, None is "None".
py_str(v) == IF v = None THEN <<"N", "o", "n", "e">> ELSE v

\* str.lower() of a text
str_lower(t) == [i \in 1..Len(t) |-> lower(t[i])]

\* A variant of is_public that differs from the code: the flag is compared as
\* it is.
is_public_exact(school) ==
    py_str(dict_get(school, "Public School", << >>)) = <<"y", "e", "s">>

\* _separate_public_private, line 107
is_public(school) ==
    str_lower(str_strip(py_str(dict_get(school, "Public School", << >>)))) = <<"y", "e", "s">>

separate_public_private(schools) ==
    [public |-> SelectSeq(schools, is_public),
     private |-> SelectSeq(schools, LAMBDA s : ~is_public(s))]

\* max(school["Enrollment"] for school in public_schools), the list not empty
max_enrollment(public_schools) ==
    Max({public_schools[i]["Enrollment"][2] : i \in 1..Len(public_schools)})

\* A variant of with_composite_score that differs from the code: the enrollment
\* term is not halved.
with_composite_score_unweighted(school, max_enrollment_public) ==
    LET enrollment_norm == py_div(school["Enrollment"][2], max_enrollment_public).val
        black_ratio == dict_get(school, "Black Population Ratio", Zero)
    IN  dict_update(school,
            "Composite Score" :> quot_add(enrollment_norm,
                                          quot_mul(Half, black_ratio)))

\* _process_public_schools, lines 125-128: the record with its score written
\* into it.
with_composite_score(school, max_enrollment_public) ==
    LET enrollment_norm == py_div(school["Enrollment"][2], max_enrollment_public).val
        black_ratio == dict_get(school, "Black Population Ratio", Zero)
    IN  dict_update(school,
            "Composite Score" :> quot_add(quot_mul(Half, enrollment_norm),
                                          quot_mul(Half, black_ratio)))

\* _process_private_schools, lines 140-141
with_ranking_score(school) ==
    dict_update(school,
        "Ranking Score" :> dict_get(school, "Black Population Ratio", Zero))

\* s with x put after its last element whose key is not below x's.
insert_desc(s, x, key) ==
    LET below == {i \in 1..Len(s) : ~quot_le(x[key], s[i][key])}
        p == IF below = {} THEN Len(s) + 1 ELSE Min(below)
    IN  SubSeq(s, 1, p - 1) \o <<x>> \o SubSeq(s, p, Len(s))

\* A variant of sorted_desc that differs from the code: an element is put
\* before the elements of equal key.
RECURSIVE sorted_desc_unstable(_, _)
sorted_desc_unstable(s, key) ==
    IF s = << >> THEN << >>
    ELSE LET t == sorted_desc_unstable(SubSeq(s, 1, Len(s) - 1), key)
             x == s[Len(s)]
             notabove == {i \in 1..Len(t) : quot_le(t[i][key], x[key])}
             p == IF notabove = {} THEN Len(t) + 1 ELSE Min(notabove)
         IN  SubSeq(t, 1, p - 1) \o <<x>> \o SubSeq(t, p, Len(t))

\* sorted(s, key=lambda r: r[key], reverse=True): a stable sort, the elements
\* of equal key stay in the order of s.
RECURSIVE sorted_desc(_, _)
sorted_desc(s, key) ==
    IF s = << >> THEN << >>
    ELSE insert_desc(sorted_desc(SubSeq(s, 1, Len(s) - 1), key), s[Len(s)], key)

\* _get_admin_name / _get_admin_email: the field of the first administrator.
get_admin_field(school, field) ==
    LET admins == dict_get(school, "Administrators", PyList(<< >>))
    IN  IF admins # << >> /\ admins[1] = "list" /\ admins[2] # << >>
        THEN dict_get(admins[2][1][2], field, << >>)
        ELSE << >>

\* _build_public_dict
build_public_dict(school) ==
    ("School ID" :> dict_get(school, "CDS Code", << >>))
    @@ ("School Name" :> dict_get(school, "School", << >>))
    @@ ("Address" :> dict_get(school, "Full Address", << >>))
    @@ ("Phone Number" :> dict_get(school, "Phone Number", << >>))
    @@ ("Email Address" :> get_admin_field(school, "Email"))
    @@ ("Enrollment" :> school["Enrollment"])
    @@ ("Black Population Ratio" :> school["Black Population Ratio"])
    @@ ("Composite Score" :> dict_get(school, "Composite Score", PyInt(0)))
    @@ ("Contact Person" :> get_admin_field(school, "Name & Position"))
    @@ ("Email Sent?" :> << >>)
    @@ ("Last Contact Date" :> << >>)
    @@ ("Next Follow-Up" :> << >>)
    @@ ("Call Log / Notes" :> << >>)
    @@ ("Campaign Status" :> << >>)
    @@ ("Additional Comments" :> << >>)

\* _build_private_dict
build_private_dict(school) ==
    ("School ID" :> dict_get(school, "CDS Code", << >>))
    @@ ("School Name" :> dict_get(school, "School", << >>))
    @@ ("Address" :> dict_get(school, "Full Address", << >>))
    @@ ("Phone Number" :> dict_get(school, "Phone Number", << >>))
    @@ ("Email Address" :> get_admin_field(school, "Email"))
    @@ ("Black Population Ratio" :> school["Black Population Ratio"])
    @@ ("Ranking Score" :> dict_get(school, "Ranking Score", PyInt(0)))
    @@ ("Contact Person" :> get_admin_field(school, "Name & Position"))
    @@ ("Email Sent?" :> << >>)
    @@ ("Last Contact Date" :> << >>)
    @@ ("Next Follow-Up" :> << >>)
    @@ ("Call Log / Notes" :> << >>)
    @@ ("Campaign Status" :> << >>)
    @@ ("Additional Comments" :> << >>)

\* _build_public_df / _build_private_df: one row per school, in the list's order
build_rows(schools, public) ==
    [i \in 1..Len(schools) |->
        IF public THEN build_public_dict(schools[i])
        ELSE build_private_dict(schools[i])]
\* _process_public_schools: ValueError when the largest enrollment is 0; else
\* the records as the call leaves them (scored in place) and the sorted list
\* it returns.
process_public_schools(public_schools) ==
    IF public_schools = << >>
    THEN [exc |-> FALSE, records |-> << >>, val |-> << >>]
    ELSE IF max_enrollment(public_schools) = 0
    THEN [exc |-> TRUE, records |-> public_schools, val |-> << >>]
    ELSE LET scored ==
                 [i \in 1..Len(public_schools) |->
                     with_composite_score(public_schools[i],
                                          max_enrollment(public_schools))]
         IN  [exc |-> FALSE, records |-> scored,
              val |-> sorted_desc(scored, "Composite Score")]

\* _process_private_schools: the records as the call leaves them (scored in
\* place) and the sorted list it returns.
process_private_schools(private_schools) ==
    LET scored == [i \in 1..Len(private_schools) |->
                      with_ranking_score(private_schools[i])]
    IN  [records |-> scored, val |-> sorted_desc(scored, "Ranking Score")]

----------------------------------------------------------------------------
(* SpreadsheetBuilder.run over the files of its data directory *)

MaxSchools == 2

PublicFlags == {<<"Y", "e", "s">>, <<" ", "Y", "E", "S", " ">>}

PrivateFlags == {<<"N", "o">>, << >>, None, Absent}

EnrichedRatios == {None, PyQuot(1, 5), PyQuot(2, 5)}

\* The enriched records of the data directory: the flag says public or not,
\* the enrollment is an int, null or a text try_int left alone, the ratio is
\* null or a quotient.
RankRecords ==
    { RawRecord(("Public School" :> p) @@ ("Enrollment" :> n)
                @@ ("Black Population Ratio" :> r)) :
        p \in PublicFlags, n \in {PyInt(0), PyInt(50), PyInt(100), None},
        r \in EnrichedRatios }
    \cup
    { RawRecord(("Public School" :> p) @@ ("Enrollment" :> PyInt(50))
                @@ ("Black Population Ratio" :> r)) :
        p \in PrivateFlags, r \in EnrichedRatios }
    \cup
    { RawRecord(("Public School" :> <<"N", "o">>) @@ ("Enrollment" :> <<"N", "/", "A">>)
                @@ ("Black Population Ratio" :> None)) }

\* The files of the data directory in os.listdir order.
DataDirs ==
    UNION { [1..n -> {Unreadable} \cup {JsonFile(d) : d \in RankRecords}] :
              n \in 0..MaxSchools }

RankInit ==
    /\ sb_files \in DataDirs
    /\ sb_schools = << >>
    /\ sb_public = << >>
    /\ sb_private = << >>
    /\ sb_public_sorted = << >>
    /\ sb_private_sorted = << >>
    /\ sb_spreadsheet = << >>
    /\ sb_pc = "load"

\* run(), lines 61-63: no file gave a record.
SbNoSchools ==
    /\ sb_pc = "load"
    /\ load_json_files(sb_files) = << >>
    /\ sb_pc' = "raised"
    /\ UNCHANGED <<sb_files, sb_schools, sb_public, sb_private,
                   sb_public_sorted, sb_private_sorted, sb_spreadsheet>>
    /\ UNCHANGED <<mvars, ovars, zvars, rvars, avars, evars, xvars, dvars,
                   hvars, pvars, cvars>>

\* run(), line 61
SbLoad ==
    /\ sb_pc = "load"
    /\ load_json_files(sb_files) # << >>
    /\ sb_schools' = load_json_files(sb_files)
    /\ sb_pc' = "separate"
    /\ UNCHANGED <<sb_files, sb_public, sb_private,
                   sb_public_sorted, sb_private_sorted, sb_spreadsheet>>
    /\ UNCHANGED <<mvars, ovars, zvars, rvars, avars, evars, xvars, dvars,
                   hvars, pvars, cvars>>

\* run(), line 65
SbSeparate ==
    /\ sb_pc = "separate"
    /\ sb_public' = separate_public_private(sb_schools).public
    /\ sb_private' = separate_public_private(sb_schools).private
    /\ sb_pc' = "process_public"
    /\ UNCHANGED <<sb_files, sb_schools,
                   sb_public_sorted, sb_private_sorted, sb_spreadsheet>>
    /\ UNCHANGED <<mvars, ovars, zvars, rvars, avars, evars, xvars, dvars,
                   hvars, pvars, cvars>>

\* run(), line 66, _process_public_schools raises.
SbProcessPublicRaises ==
    /\ sb_pc = "process_public"
    /\ process_public_schools(sb_public).exc
    /\ sb_pc' = "raised"
    /\ UNCHANGED <<sb_files, sb_schools, sb_public, sb_private,
                   sb_public_sorted, sb_private_sorted, sb_spreadsheet>>
    /\ UNCHANGED <<mvars, ovars, zvars, rvars, avars, evars, xvars, dvars,
                   hvars, pvars, cvars>>

\* run(), line 66.  The records of the public list are the objects of the
\* loaded list: a score written into one is written into both.
SbProcessPublic ==
    /\ sb_pc = "process_public"
    /\ ~process_public_schools(sb_public).exc
    /\ sb_public' = process_public_schools(sb_public).records
    /\ sb_schools' =
          [i \in 1..Len(sb_schools) |->
              IF is_public(sb_schools[i]) /\ sb_public # << >>
              THEN with_composite_score(sb_schools[i], max_enrollment(sb_public))
              ELSE sb_schools[i]]
    /\ sb_public_sorted' = process_public_schools(sb_public).val
    /\ sb_pc' = "process_private"
    /\ UNCHANGED <<sb_files, sb_private, sb_private_sorted, sb_spreadsheet>>
    /\ UNCHANGED <<mvars, ovars, zvars, rvars, avars, evars, xvars, dvars,
                   hvars, pvars, cvars>>

\* run(), line 67
SbProcessPrivate ==
    /\ sb_pc = "process_private"
    /\ sb_private' = process_private_schools(sb_private).records
    /\ sb_schools' =
          [i \in 1..Len(sb_schools) |->
              IF is_public(sb_schools[i]) THEN sb_schools[i]
              ELSE with_ranking_score(sb_schools[i])]
    /\ sb_private_sorted' = process_private_schools(sb_private).val
    /\ sb_pc' = "write"
    /\ UNCHANGED <<sb_files, sb_public, sb_public_sorted, sb_spreadsheet>>
    /\ UNCHANGED <<mvars, ovars, zvars, rvars, avars, evars, xvars, dvars,
                   hvars, pvars, cvars>>

\* run(), lines 70-76: the two sheets are built and written.
SbWrite ==
    /\ sb_pc = "write"
    /\ sb_spreadsheet' = <<[public |-> build_rows(sb_public_sorted, TRUE),
                            private |-> build_rows(sb_private_sorted, FALSE)]>>
    /\ sb_pc' = "done"
    /\ UNCHANGED <<sb_files, sb_schools, sb_public, sb_private,
                   sb_public_sorted, sb_private_sorted>>
    /\ UNCHANGED <<mvars, ovars, zvars, rvars, avars, evars, xvars, dvars,
                   hvars, pvars, cvars>>

RankNext ==
    \/ SbNoSchools
    \/ SbLoad
    \/ SbSeparate
    \/ SbProcessPublicRaises
    \/ SbProcessPublic
    \/ SbProcessPrivate
    \/ SbWrite

----------------------------------------------------------------------------
(* Orchestrator.run called again once it has returned, over the same listings *)
(* and with the pages answering as they did.  The writes of the first run     *)
(* succeed; those of the second end in any of WriteOutcomes.                  *)

\* What the two pages of a listing answer, one answer for each thing run()
\* can do with the listing: a listing without CDS code is not fetched, one
\* without a link has no detail page, the supplemental page is not fetched
\* when the detail page is rejected, and a page without a table gives what a
\* failed fetch gives.
FetchChoices(school) ==
    IF missing_cds_code(school) THEN {<<"error", "error">>}
    ELSE IF ~Truthy(school["details_relative_url"])
    THEN {"error"} \X {"error", "rejected", "table"}
    ELSE ({"error", "table"} \X {"error", "rejected", "table"})
         \cup {<<"rejected", "error">>}

\* What run() does for the listing at idx_ when its pages answer resp: the
\* value `last` takes (run(), lines 62-74).
handled(idx_, school, resp) ==
    LET full_data == process_school(school, resp[1], resp[2])
    IN  [idx |-> idx_,
         kind |-> IF full_data.exc THEN "failed" ELSE "processed",
         cds_code |-> school["cds_code"],
         details_called |-> full_data.details_called,
         additional_called |-> full_data.additional_called,
         details_ok |-> full_data.details_called /\ resp[1] = "table",
         additional_ok |-> full_data.additional_called /\ resp[2] = "table"]

RerunInit ==
    /\ test_mode = FALSE
    /\ incremental_update \in BOOLEAN
    /\ all_basic_schools \in ShortListings
    /\ pc = "idle"
    /\ idx = 0
    /\ all_schools_data = EmptyDict
    /\ result = <<"no result">>
    /\ schools_incremental = EmptyDict
    /\ schools_dir = EmptyDict
    /\ all_schools_json = << >>
    /\ n_skipped_warnings = 0
    /\ n_success_infos = 0
    /\ n_errors = 0
    /\ last = NoListing
    /\ restarted = FALSE
    /\ ckpt_before = {}
    /\ write_failed = {}
    /\ rr_fetch \in [1..Len(all_basic_schools) -> Responses \X Responses]
    /\ \A i \in 1..Len(all_basic_schools) :
          rr_fetch[i] \in FetchChoices(all_basic_schools[i])
    /\ rr_run = 1
    /\ rr_first = << >>

\* run(), lines 50-53, of the second call: the files are as the first call
\* left them.
SecondRunStart ==
    /\ pc = "done"
    /\ rr_run = 1
    /\ rr_run' = 2
    /\ rr_first' = <<files>>
    /\ pc' = "loop"
    /\ idx' = 0
    /\ all_schools_data' = EmptyDict
    /\ result' = <<"no result">>
    /\ n_skipped_warnings' = 0
    /\ n_success_infos' = 0
    /\ n_errors' = 0
    /\ last' = NoListing
    /\ restarted' = FALSE
    /\ ckpt_before' = DOMAIN schools_incremental
    /\ write_failed' = {}
    /\ UNCHANGED <<files, options, rr_fetch>>
    /\ UNCHANGED <<mvars, zvars, rvars, avars, evars, xvars, dvars, svars, pvars, cvars>>

\* SchoolProcessed with the pages of the listing answering as rr_fetch says.
RerunSchoolProcessed ==
    /\ SchoolProcessed
    /\ last' = handled(idx, all_basic_schools[idx + 1], rr_fetch[idx + 1])
    /\ rr_run = 1 => write_failed' = {}

\* SchoolFailed with the pages of the listing answering as rr_fetch says.
RerunSchoolFailed ==
    /\ SchoolFailed
    /\ last' = handled(idx, all_basic_schools[idx + 1], rr_fetch[idx + 1])

\* ExportAll, its writes succeeding in the first run.
RerunExportAll ==
    /\ ExportAll
    /\ rr_run = 1 =>
          /\ all_schools_json' = <<all_schools_data>>
          /\ schools_dir' = all_schools_data

RerunNext ==
    \/ RunStart
    \/ SecondRunStart
    \/ SkipSchool
    \/ RerunSchoolProcessed
    \/ RerunSchoolFailed
    \/ LoopExhausted
    \/ RerunExportAll

----------------------------------------------------------------------------
(* run_pipeline: Orchestrator.run, SchoolDataNormalizer.run over data/schools, *)
(* DemographicCalculator.run over data/schools_normalized and                  *)
(* SpreadsheetBuilder.run over data/schools_normalized_demo.  A directory is a *)
(* function from the CDS code that names a file (<cds>.json) to what the file  *)
(* holds.  No stage empties a directory; every write of the pipeline succeeds. *)

\* The files an earlier run of the pipeline can have left, all of a school that
\* is no longer listed: its merged record (whole, truncated, or with a count
\* the normalizer raises on), its normalized record, its enriched record
\* (private, or public without enrollment).
StaleCds == <<"0", "9">>

StaleMerged == merge_data(Listing(StaleCds, None), EmptyDict, EmptyDict)

StaleNormalized == normalize_school_data(StaleMerged, Raise).val

StaleEnriched == dict_update(StaleNormalized, "Black Population Ratio" :> None)

StaleSchoolsDirs ==
    { EmptyDict, StaleCds :> StaleMerged, StaleCds :> Truncated,
      StaleCds :> dict_update(StaleMerged,
                     "English Language Learners" :> <<"1", "2", " ", "(", "1", ".", "2", ".", "3", " ", "%", ")">>) }

StaleNormalizedDirs == {EmptyDict, StaleCds :> StaleNormalized}

StaleDemoDirs ==
    { EmptyDict, StaleCds :> StaleEnriched,
      StaleCds :> dict_update(StaleEnriched, "Public School" :> <<"Y", "e", "s">>) }

\* pipeline.py, lines 39-43: the files the normalizer's glob finds in
\* data/schools, as json.load takes them.
as_json_files(dir) ==
    [k \in DOMAIN dir |->
        IF dir[k] = Truncated THEN Unreadable ELSE JsonFile(dir[k])]

\* DemographicCalculator.run, lines 57-61: every file of in_dir that can be
\* read is enriched and written to out_dir under its name; wr is the outcome
\* of each write.
enrich_dir(in_dir, out_dir, cities, wr) ==
    LET read == {k \in DOMAIN in_dir : in_dir[k] # Truncated}
        written == {k \in read : wr[k] # "open"}
    IN  [k \in DOMAIN out_dir \cup written |->
            IF k \in written
            THEN (IF wr[k] = "ok" THEN enrich_record(in_dir[k], cities).val
                  ELSE Truncated)
            ELSE out_dir[k]]

\* os.listdir: the files of a directory in some order.
listdir(dir) ==
    { s \in [1..Cardinality(DOMAIN dir) -> DOMAIN dir] :
        \A i, j \in DOMAIN s : i # j => s[i] # s[j] }

PipeInit ==
    /\ test_mode = TRUE
    /\ incremental_update = TRUE
    /\ all_basic_schools \in ShortListings
    /\ pc = "idle"
    /\ idx = 0
    /\ all_schools_data = EmptyDict
    /\ result = <<"no result">>
    /\ schools_incremental = EmptyDict
    /\ schools_dir \in StaleSchoolsDirs
    /\ all_schools_json = << >>
    /\ n_skipped_warnings = 0
    /\ n_success_infos = 0
    /\ n_errors = 0
    /\ last = NoListing
    /\ restarted = FALSE
    /\ ckpt_before = {}
    /\ write_failed = {}
    /\ input_dir = EmptyDict
    /\ output_dir \in StaleNormalizedDirs
    /\ glob_left = {}
    /\ nr_pc = "off"
    /\ nr_read_errors = 0
    /\ city_data = (<<"A", "l", "a", "m", "e", "d", "a">> :> CityEntry(PyInt(4), PyInt(1)))
    /\ en_school = EmptyDict
    /\ en_out = EmptyDict
    /\ en_pc = "off"
    /\ pl_demo_dir \in StaleDemoDirs
    /\ pl_pc = "scrape"

\* SchoolProcessed, the checkpoint written.
PipeSchoolProcessed ==
    /\ SchoolProcessed
    /\ write_failed' = {}

\* ExportAll, both exports written.
PipeExportAll ==
    /\ ExportAll
    /\ all_schools_json' = <<all_schools_data>>
    /\ schools_dir' = dict_update(schools_dir, all_schools_data)

\* pipeline.py, lines 36-43: scraper.run() has returned; the normalizer is
\* made and its run() starts its glob over data/schools.
PipeNormalizeStart ==
    /\ pl_pc = "scrape"
    /\ pc = "done"
    /\ pl_pc' = "normalize"
    /\ input_dir' = as_json_files(schools_dir)
    /\ glob_left' = DOMAIN schools_dir
    /\ nr_pc' = "loop"
    /\ nr_read_errors' = 0
    /\ UNCHANGED <<output_dir, pl_demo_dir>>
    /\ UNCHANGED <<mvars, ovars, zvars, avars, evars, xvars, dvars, svars, hvars, cvars>>

\* NormFileDone, the normalized file written.
PipeNormFileDone ==
    /\ NormFileDone
    /\ \A json_file \in glob_left \ glob_left' :
          /\ json_file \in DOMAIN output_dir'
          /\ output_dir'[json_file] # Truncated

\* pipeline.py, lines 45-53: normalizer.run() has returned; the calculator is
\* made and run over data/schools_normalized.
PipeEnrich ==
    /\ pl_pc = "normalize"
    /\ nr_pc = "completed"
    /\ pl_pc' = "enrich"
    /\ pl_demo_dir' = enrich_dir(output_dir, pl_demo_dir, city_data,
                                 [k \in DOMAIN output_dir |-> "ok"])
    /\ UNCHANGED <<mvars, ovars, zvars, rvars, avars, evars, xvars, dvars, svars,
                   hvars, cvars>>

\* pipeline.py, lines 55-62: calc.run() has returned; the builder is made and
\* its run() lists data/schools_normalized_demo.
PipeRankStart ==
    /\ pl_pc = "enrich"
    /\ pl_pc' = "rank"
    /\ \E order \in listdir(pl_demo_dir) :
          sb_files' = [i \in DOMAIN order |-> as_json_files(pl_demo_dir)[order[i]]]
    /\ sb_pc' = "load"
    /\ UNCHANGED <<sb_schools, sb_public, sb_private, sb_public_sorted,
                   sb_private_sorted, sb_spreadsheet, pl_demo_dir>>
    /\ UNCHANGED <<mvars, ovars, zvars, rvars, avars, evars, xvars, dvars, hvars, cvars>>

PipeNext ==
    \/ RunStart
    \/ SkipSchool
    \/ PipeSchoolProcessed
    \/ SchoolFailed
    \/ LoopExhausted
    \/ PipeExportAll
    \/ PipeNormalizeStart
    \/ NormReadError
    \/ PipeNormFileDone
    \/ NormFileRaises
    \/ NormRunCompleted
    \/ PipeEnrich
    \/ PipeRankStart
    \/ SbNoSchools
    \/ SbLoad
    \/ SbSeparate
    \/ SbProcessPublicRaises
    \/ SbProcessPublic
    \/ SbProcessPrivate
    \/ SbWrite

----------------------------------------------------------------------------
(* clean_text as a function under test: the texts *)

\* What a scraped field is made of: the halves of the markup's labels, a label
\* in capitals, the optional end of the map label, and text of the field with
\* blanks around it.
CleanPieces ==
    { <<"L", "i", "n", "k", " ", "o", "p", "e", "n", "s", " ", "n", "e", "w", " ">>, <<"b", "r", "o", "w", "s", "e", "r", " ", "t", "a", "b">>, <<"G", "o", "o", "g", "l", "e", " ", "M", "a", "p">>, <<" ", "L", "i", "n", "k">>, <<"E", "m", "a", "i", "l">>,
      <<"G", "O", "O", "G", "L", "E", " ", "M", "A", "P">>, <<" ", "x", " ">> }

\* The pieces one after the other, nothing between them; no text at all.
CleanTexts ==
    { str_join(<< >>, ps) : ps \in UNION {[1..n -> CleanPieces] : n \in 0..MaxPieces} }
    \cup {None}

CleanInit ==
    /\ ct_text \in CleanTexts
    /\ ct_once = << >>
    /\ ct_twice = << >>
    /\ ct_pc = "call"

CleanTextCall ==
    /\ ct_pc = "call"
    /\ ct_once' = clean_text(ct_text)
    /\ ct_pc' = "once"
    /\ UNCHANGED <<ct_text, ct_twice>>
    /\ UNCHANGED <<mvars, ovars, zvars, rvars, avars, evars, xvars, dvars, svars,
                   hvars, pvars>>

\* clean_text called with what it has returned
CleanTextAgain ==
    /\ ct_pc = "once"
    /\ ct_twice' = clean_text(ct_once)
    /\ ct_pc' = "twice"
    /\ UNCHANGED <<ct_text, ct_once>>
    /\ UNCHANGED <<mvars, ovars, zvars, rvars, avars, evars, xvars, dvars, svars,
                   hvars, pvars>>

----------------------------------------------------------------------------
(* Specifications *)

vars == <<mvars, ovars, zvars, rvars, avars, evars, xvars, dvars, svars,
          hvars, pvars, cvars>>

\* The orchestrator at rest, while another component is under test.
OrchIdle ==
    /\ test_mode = FALSE
    /\ incremental_update = FALSE
    /\ all_basic_schools = << >>
    /\ pc = "off"
    /\ idx = 0
    /\ all_schools_data = EmptyDict
    /\ result = <<"no result">>
    /\ schools_incremental = EmptyDict
    /\ schools_dir = EmptyDict
    /\ all_schools_json = << >>
    /\ n_skipped_warnings = 0
    /\ n_success_infos = 0
    /\ n_errors = 0
    /\ last = NoListing
    /\ restarted = FALSE
    /\ ckpt_before = {}
    /\ write_failed = {}

MergeIdle ==
    /\ basic = EmptyDict
    /\ details = EmptyDict
    /\ additional = EmptyDict
    /\ merged = EmptyDict
    /\ m_pc = "off"

NormalizeIdle ==
    /\ raw = EmptyDict
    /\ normalized = Raise
    /\ nz_pc = "off"

NormRunIdle ==
    /\ input_dir = EmptyDict
    /\ output_dir = EmptyDict
    /\ glob_left = {}
    /\ nr_pc = "off"
    /\ nr_read_errors = 0

AdminsIdle ==
    /\ pa_text = << >>
    /\ pa_admins = PyList(<< >>)
    /\ pa_pc = "off"

EllIdle ==
    /\ pe_value = None
    /\ pe_result = Return(None)
    /\ pe_pc = "off"

AddressIdle ==
    /\ addr_in = << >>
    /\ addr_tag = Raise
    /\ addr_out = << >>
    /\ ea_pc = "off"

EnrichIdle ==
    /\ city_data = EmptyDict
    /\ en_school = EmptyDict
    /\ en_out = EmptyDict
    /\ en_pc = "off"

RankIdle ==
    /\ sb_files = << >>
    /\ sb_schools = << >>
    /\ sb_public = << >>
    /\ sb_private = << >>
    /\ sb_public_sorted = << >>
    /\ sb_private_sorted = << >>
    /\ sb_spreadsheet = << >>
    /\ sb_pc = "off"

RerunIdle ==
    /\ rr_fetch = << >>
    /\ rr_run = 0
    /\ rr_first = << >>

PipeIdle ==
    /\ pl_pc = "off"
    /\ pl_demo_dir = EmptyDict

CleanIdle ==
    /\ ct_text = << >>
    /\ ct_once = << >>
    /\ ct_twice = << >>
    /\ ct_pc = "off"

\* The text functions, the enrichment and the ranking at rest, no second run
\* and no pipeline.
LaterIdle ==
    /\ AdminsIdle /\ EllIdle /\ AddressIdle /\ EnrichIdle /\ RankIdle
    /\ RerunIdle /\ PipeIdle /\ CleanIdle

\* The scraper and the normalizer at rest, no second run and no pipeline.
EarlierIdle ==
    /\ OrchIdle /\ MergeIdle /\ NormalizeIdle /\ NormRunIdle
    /\ RerunIdle /\ PipeIdle /\ CleanIdle

\* Orchestrator.run, killed at any point and started again once.
Init == OrchInit /\ MergeIdle /\ NormalizeIdle /\ NormRunIdle /\ LaterIdle

Next ==
    \/ RunStart
    \/ SkipSchool
    \/ SchoolProcessed
    \/ SchoolFailed
    \/ LoopExhausted
    \/ ExportAll
    \/ Terminate

Spec == Init /\ [][Next]_vars

\* SchoolDataMerger.merge_data on every triple of small records.
MergeSpecInit == MergeInit /\ OrchIdle /\ NormalizeIdle /\ NormRunIdle /\ LaterIdle

SpecMerge == MergeSpecInit /\ [][MergeCall]_vars

\* normalize_school_data on every raw record of RawRecords.
NormalizeSpecInit ==
    NormalizeInit /\ OrchIdle /\ MergeIdle /\ NormRunIdle /\ LaterIdle

SpecNormalize == NormalizeSpecInit /\ [][NormalizeCall]_vars

\* SchoolDataNormalizer.run over every input directory of InputDirs; the loop
\* of run() goes on as long as it has a step to take.
NormRunSpecInit ==
    NormRunInit /\ OrchIdle /\ MergeIdle /\ NormalizeIdle /\ LaterIdle

NormRunNext ==
    \/ NormReadError
    \/ NormFileDone
    \/ NormFileRaises
    \/ NormRunCompleted

SpecNormRun == NormRunSpecInit /\ [][NormRunNext]_vars /\ WF_vars(NormRunNext)

\* parse_administrators on every text of AdminTexts.
AdminsSpecInit ==
    AdminsInit /\ EarlierIdle /\ EllIdle /\ AddressIdle /\ EnrichIdle /\ RankIdle

SpecAdmins == AdminsSpecInit /\ [][ParseAdministratorsCall]_vars

\* parse_english_language_learners on every value of EllValues.
EllSpecInit ==
    EllInit /\ EarlierIdle /\ AdminsIdle /\ AddressIdle /\ EnrichIdle /\ RankIdle

SpecEll == EllSpecInit /\ [][ParseEllCall]_vars

\* extract_address_components on every address of AddressTexts, with every
\* answer of the tagger.
AddressSpecInit ==
    AddressInit /\ EarlierIdle /\ AdminsIdle /\ EllIdle /\ EnrichIdle /\ RankIdle

SpecAddress == AddressSpecInit /\ [][ExtractAddressCall]_vars

\* _enrich_single_file on every record of EnrichRecords with every table of
\* CityTables.
EnrichSpecInit ==
    EnrichInit /\ EarlierIdle /\ AdminsIdle /\ EllIdle /\ AddressIdle /\ RankIdle

SpecEnrich == EnrichSpecInit /\ [][EnrichSingleFile]_vars

\* SpreadsheetBuilder.run over a data directory.
RankSpecInit ==
    RankInit /\ EarlierIdle /\ AdminsIdle /\ EllIdle /\ AddressIdle /\ EnrichIdle

SpecRank == RankSpecInit /\ [][RankNext]_vars

\* Orchestrator.run twice over the same listings, the pages answering the
\* same.
RerunSpecInit ==
    /\ RerunInit
    /\ MergeIdle /\ NormalizeIdle /\ NormRunIdle
    /\ AdminsIdle /\ EllIdle /\ AddressIdle /\ EnrichIdle /\ RankIdle /\ PipeIdle /\ CleanIdle

SpecRerun == RerunSpecInit /\ [][RerunNext]_vars

\* run_pipeline over the listings, with the files an earlier run can have left.
PipeSpecInit ==
    /\ PipeInit
    /\ MergeIdle /\ NormalizeIdle
    /\ AdminsIdle /\ EllIdle /\ AddressIdle /\ RankIdle /\ RerunIdle /\ CleanIdle

SpecPipeline == PipeSpecInit /\ [][PipeNext]_vars

\* clean_text on a text, and on its own result.
CleanNext ==
    \/ CleanTextCall
    \/ CleanTextAgain

CleanSpecInit ==
    /\ CleanInit
    /\ OrchIdle /\ MergeIdle /\ NormalizeIdle /\ NormRunIdle
    /\ AdminsIdle /\ EllIdle /\ AddressIdle /\ EnrichIdle /\ RankIdle
    /\ RerunIdle /\ PipeIdle

SpecClean == CleanSpecInit /\ [][CleanNext]_vars

----------------------------------------------------------------------------
(* Claims *)

\* C1: the merged record's keys are the union of the three inputs' keys, and
\* each key holds the supplemental value if the supplemental fragment has the
\* key, else the detail value if the detail fragment has it, else the
\* listing's.
C1_MergePrecedence ==
    m_pc = "returned" =>
        /\ DOMAIN merged = DOMAIN basic \cup DOMAIN details \cup DOMAIN additional
        /\ \A k \in DOMAIN merged :
              merged[k] = IF k \in DOMAIN additional THEN additional[k]
                          ELSE IF k \in DOMAIN details THEN details[k]
                          ELSE basic[k]

\* A merge in which one label is in all three layers with three layers
\* disagreeing, and another label only in the listing.
C1_Witness ==
    /\ m_pc = "returned"
    /\ "Status" \in DOMAIN basic \cap DOMAIN details \cap DOMAIN additional
    /\ basic["Status"] # additional["Status"]
    /\ details["Status"] # additional["Status"]
    /\ "cds_code" \in DOMAIN basic
    /\ "cds_code" \notin DOMAIN details \cup DOMAIN additional
    /\ "Enrollment" \in DOMAIN details \ DOMAIN additional
    /\ "Enrollment" \in DOMAIN basic
    /\ basic["Enrollment"] # details["Enrollment"]

\* C2 (as claimed): every listing with an identifier that the run handled is
\* in the aggregate under its identifier, with the data of the layers whose
\* fetch and parse succeeded and an empty fragment for the others.
C2_FailedLayerKeepsEntity ==
    last.kind \in {"processed", "failed"} =>
        /\ last.cds_code \in DOMAIN all_schools_data
        /\ all_schools_data[last.cds_code] =
              merge_data(all_basic_schools[last.idx + 1],
                         IF last.details_ok THEN DetailsTable ELSE EmptyDict,
                         IF last.additional_ok THEN AdditionalTable ELSE EmptyDict)

\* C3 (as claimed): for every listing with an identifier that the run handled,
\* the supplemental layer was fetched, whatever the detail step did.
C3_SupplementalAlwaysFetched ==
    last.kind \in {"processed", "failed"} => last.additional_called

\* C4 (as claimed): SchoolDataNormalizer.run never ends by an exception that
\* one file raised, and when it is over the loop has handled every file of the
\* input directory.
C4_ErrorNeverAbortsRun ==
    /\ nr_pc # "raised"
    /\ nr_pc = "completed" => glob_left = {}

\* C5 (as claimed): in test mode no listing beyond the first TestModeLastIdx + 1
\* is fetched or added to the aggregate, and the loop consumes no more than
\* that many listings.
C5_TestModeFirstN ==
    test_mode =>
        /\ last.kind \in {"processed", "failed"} => last.idx + 1 <= TestModeLastIdx + 1
        /\ pc \in {"loop", "export", "done"} => idx <= TestModeLastIdx + 1

\* C6: when the listing at idx has no identifier, the step the run takes (unless
\* it is killed) fetches nothing, leaves the aggregate and every file as they
\* are, logs one warning and no error, and goes on with the next listing.
C6_MissingIdentifierSkipped ==
    [][ ( /\ pc = "loop"
          /\ idx < Len(all_basic_schools)
          /\ all_basic_schools[idx + 1]["cds_code"] = << >>
          /\ pc' # "killed" )
        => ( /\ pc' = "loop"
             /\ idx' = idx + 1
             /\ all_schools_data' = all_schools_data
             /\ files' = files
             /\ n_skipped_warnings' = n_skipped_warnings + 1
             /\ n_errors' = n_errors
             /\ n_success_infos' = n_success_infos
             /\ last'.idx = idx
             /\ ~last'.details_called
             /\ ~last'.additional_called ) ]_vars

\* A listing was skipped for its missing identifier and the listing after it
\* was processed.
C6_Witness ==
    /\ last.kind = "processed"
    /\ last.idx >= 1
    /\ all_basic_schools[last.idx]["cds_code"] = << >>
    /\ n_skipped_warnings >= 1
    /\ << >> \notin DOMAIN all_schools_data

SkippedAmong(n) ==
    {i \in 1..n : all_basic_schools[i]["cds_code"] = << >>}

C10_FixedSchema ==
    nz_pc = "returned" =>
        /\ ~normalized.exc
        /\ DOMAIN normalized.val = NormKeys
        /\ LET admins == normalized.val["Administrators"][2]
           IN  \A i \in 1..Len(admins) :
                   DOMAIN admins[i][2] = {"Name & Position", "Phone", "Email"}
        /\ DOMAIN normalized.val["CDS Coordinator"][2] = {"Name", "Phone"}

\* Whether a token is an email address: it holds an "@" with a character
\* before it and one after it.
IsEmailToken(tok) == \E k \in 2..(Len(tok) - 1) : tok[k] = "@"

\* The positions, among the tokens toks, of the emails.
EmailPositions(toks) == {i \in 1..Len(toks) : IsEmailToken(toks[i])}

\* The position of the n-th email among the tokens (0 for n = 0).
NthEmail(toks, n) ==
    IF n = 0 THEN 0
    ELSE CHOOSE i \in EmailPositions(toks) :
             Cardinality({j \in EmailPositions(toks) : j <= i}) = n

\* C11: parse_administrators returns one contact per email address of the text
\* (the Administrator field, its markup labels stripped), in the order of the
\* emails; the contact's phone is the (NNN) NNN-NNNN match of the block between
\* the previous email and its own, empty if there is none; its name is that
\* block without the phone and without the lone "0" tokens, its tokens joined
\* by single spaces; a text without an email gives the empty list; the
\* "Jane Doe" text gives the one contact of the example.
C11_OneContactPerEmail ==
    pa_pc = "returned" =>
        LET toks == str_split(clean_text(pa_text))
            count == Cardinality(EmailPositions(toks))
            contacts == pa_admins[2]
        IN  /\ pa_admins[1] = "list"
            /\ Len(contacts) = count
            /\ \A n \in 1..count :
                  LET contact == contacts[n][2]
                      block == SubSeq(toks, NthEmail(toks, n - 1) + 1,
                                      NthEmail(toks, n) - 1)
                      text == str_join(<<" ">>, block)
                      m == phone_search(text)
                      phone == IF m[1] > 0 THEN SubSeq(text, m[1], m[2]) ELSE << >>
                      rest == IF m[1] > 0 THEN str_remove(text, phone) ELSE text
                  IN  /\ DOMAIN contact = {"Name & Position", "Phone", "Email"}
                      /\ contact["Email"] = toks[NthEmail(toks, n)]
                      /\ contact["Phone"] = phone
                      /\ contact["Name & Position"] =
                            str_join(<<" ">>,
                                     SelectSeq(str_split(rest),
                                               LAMBDA tok : tok # <<"0">>))
            /\ pa_text = <<"J", "a", "n", "e", " ", "D", "o", "e", " ", "P", "r", "i", "n", "c", "i", "p", "a", "l", " ", "(", "5", "5", "5", ")", " ", "1", "2", "3", "-", "4", "5", "6", "7", " ", "j", "a", "n", "e", "@", "s", "c", "h", "o", "o", "l", ".", "o", "r", "g">> =>
                  contacts = << PyDict(("Name & Position" :> <<"J", "a", "n", "e", " ", "D", "o", "e", " ", "P", "r", "i", "n", "c", "i", "p", "a", "l">>)
                                       @@ ("Phone" :> <<"(", "5", "5", "5", ")", " ", "1", "2", "3", "-", "4", "5", "6", "7">>)
                                       @@ ("Email" :> <<"j", "a", "n", "e", "@", "s", "c", "h", "o", "o", "l", ".", "o", "r", "g">>)) >>

\* A text with a phone and two emails, parsed into two contacts in the order
\* of the emails, the first with the phone.
C11_Witness ==
    /\ pa_pc = "returned"
    /\ Len(pa_admins[2]) = 2
    /\ pa_admins[2][1][2]["Phone"] = <<"(", "5", "5", "5", ")", " ", "1", "2", "3", "-", "4", "5", "6", "7">>
    /\ pa_admins[2][1][2]["Email"] = <<"a", "@", "b", ".", "c">>
    /\ pa_admins[2][2][2]["Email"] = <<"j", "o", "@", "s", ".", "o", "r", "g">>

\* C12 (as claimed): parse_english_language_learners returns, for every value,
\* either the value unchanged or the record of a count and a percentage; it
\* returns count 43 and percentage 19.3 for "43 (19.3 %)", and "N/A" and an
\* absent value unchanged.
C12_EllParsedOrUnchanged ==
    pe_pc = "returned" =>
        /\ ~pe_result.exc
        /\ \/ pe_result.val = pe_value
           \/ /\ pe_result.val[1] = "dict"
              /\ DOMAIN pe_result.val[2] = {"Count", "Percentage"}
        /\ pe_value = <<"4", "3", " ", "(", "1", "9", ".", "3", " ", "%", ")">> =>
              pe_result.val = PyDict([Count |-> PyInt(43),
                                      Percentage |-> <<"float", 19, <<"3">>>>])
        /\ pe_value \in {<<"N", "/", "A">>, << >>, None} => pe_result.val = pe_value

\* C13: extract_address_components returns five components, none of them
\* None, whatever the tagger answers; when the tagger reports a repeated label
\* (RepeatedLabelError) the components are the cleaned full string and four
\* empty strings; an empty or absent address gives five empty strings.
C13_AddressFallback ==
    ea_pc = "returned" =>
        /\ Len(addr_out) = 5
        /\ \A i \in 1..5 : addr_out[i] # None
        /\ (addr_tag.exc /\ Truthy(addr_in)) =>
              addr_out = <<clean_text(addr_in), << >>, << >>, << >>, << >>>>
        /\ ~Truthy(addr_in) => addr_out = << << >>, << >>, << >>, << >>, << >> >>

\* An address with blanks before it and a label after it, the tagger reporting
\* a repeated label: the street address is the address alone.
C13_Witness ==
    /\ ea_pc = "returned"
    /\ addr_tag.exc
    /\ addr_in = <<" ", " ", "M", "a", "i", "n", " ", "M", "a", "i", "n", " ", "G", "o", "o", "g", "l", "e", " ", "M", "a", "p", " ", "L", "i", "n", "k">>
    /\ addr_out[1] = <<"M", "a", "i", "n", " ", "M", "a", "i", "n">>
    /\ addr_out[3] = << >>

\* C14: the enrichment never fails on a division; it adds the ratio to the
\* record and leaves its other fields as they are; the ratio is the quotient
\* of the subgroup count by the total when the record's city is not empty and
\* is a key of the table, the total is there and not 0 and the subgroup count
\* is there, and it is null in every other case.
C14_RatioOrNull ==
    en_pc = "returned" =>
        /\ ~en_out.exc
        /\ DOMAIN en_out.val = DOMAIN en_school \cup {"Black Population Ratio"}
        /\ \A k \in DOMAIN en_school : en_out.val[k] = en_school[k]
        /\ LET ratio == en_out.val["Black Population Ratio"]
               known == /\ "City" \in DOMAIN en_school
                        /\ en_school["City"] \notin {None, << >>}
                        /\ en_school["City"] \in DOMAIN city_data
               entry == city_data[en_school["City"]]
           IN  IF /\ known
                  /\ entry.total_population \notin {None, PyInt(0)}
                  /\ entry.black_population # None
               THEN /\ ratio[1] = "quot"
                    /\ ratio[3] > 0
                    /\ ratio[2] * entry.total_population[2]
                          = entry.black_population[2] * ratio[3]
               ELSE ratio = None

\* The city is in the table with total 4 and subgroup 1: the ratio is 1/4.
C14_Witness ==
    /\ en_pc = "returned"
    /\ "City" \in DOMAIN en_school
    /\ en_school["City"] = <<"A", "l", "a", "m", "e", "d", "a">>
    /\ <<"A", "l", "a", "m", "e", "d", "a">> \in DOMAIN city_data
    /\ city_data[<<"A", "l", "a", "m", "e", "d", "a">>] = CityEntry(PyInt(4), PyInt(1))
    /\ en_out.val["Black Population Ratio"] = <<"quot", 1, 4>>

\* C15: once the loaded records are separated, every loaded record is in
\* exactly one of the two segments, in the loaded order: in the public segment
\* if its "Public School" flag, trimmed and lower-cased, is "yes" (the flags
\* "Yes" and " YES " among the records), in the private segment otherwise
\* ("No", empty, null or missing).
FlagSaysYes(school) ==
    /\ "Public School" \in DOMAIN school
    /\ school["Public School"] \in {<<"Y", "e", "s">>, <<" ", "Y", "E", "S", " ">>}

C15_ExactlyOneSegment ==
    sb_pc = "process_public" =>
        /\ Len(sb_public) + Len(sb_private) = Len(sb_schools)
        /\ sb_public = SelectSeq(sb_schools, FlagSaysYes)
        /\ sb_private = SelectSeq(sb_schools, LAMBDA s : ~FlagSaysYes(s))
        /\ \A i \in 1..Len(sb_schools) :
              Cardinality({j \in 1..Len(sb_public) : sb_public[j] = sb_schools[i]})
              + Cardinality({j \in 1..Len(sb_private) : sb_private[j] = sb_schools[i]})
              = Cardinality({j \in 1..Len(sb_schools) : sb_schools[j] = sb_schools[i]})

C15_Witness ==
    /\ sb_pc = "process_public"
    /\ Len(sb_schools) = 2
    /\ Len(sb_public) = 1
    /\ Len(sb_private) = 1
    /\ sb_public[1]["Public School"] = <<" ", "Y", "E", "S", " ">>
    /\ "Public School" \in DOMAIN sb_private[1]
    /\ sb_private[1]["Public School"] = None

\* The records of the readable files, as the files hold them, and those of
\* them whose flag says public, in the loaded order.
FileRecords ==
    LET readable == SelectSeq(sb_files, LAMBDA f : f.readable)
    IN  [i \in 1..Len(readable) |-> readable[i].data]

PublicFileRecords == SelectSeq(FileRecords, FlagSaysYes)

PrivateFileRecords == SelectSeq(FileRecords, LAMBDA s : ~FlagSaysYes(s))

\* The enrollment a file's record holds, 0 when it holds no int.
FileEnrollment(school) ==
    IF "Enrollment" \in DOMAIN school /\ school["Enrollment"][1] = "int"
    THEN school["Enrollment"][2]
    ELSE 0

\* Numerator and denominator of the ratio a file's record holds, 0/1 when the
\* ratio is null.
FileRatio(school) ==
    IF "Black Population Ratio" \in DOMAIN school
       /\ school["Black Population Ratio"][1] = "quot"
    THEN <<school["Black Population Ratio"][2], school["Black Population Ratio"][3]>>
    ELSE <<0, 1>>

\* C16: once the public segment is scored, the Composite Score of each of its
\* records is 0.5 * (enrollment / largest enrollment of the segment)
\* + 0.5 * (ratio, or 0 when the ratio is null); a segment of the schools
\* (100, 0.2) and (50, 0.4) gets the scores 0.6 and 0.45 and the spreadsheet
\* lists the first above the second.
C16_CompositeScore ==
    /\ (sb_pc \in {"process_private", "write", "done"} /\ sb_public # << >>) =>
          LET largest == Max({FileEnrollment(PublicFileRecords[j]) :
                                j \in 1..Len(PublicFileRecords)})
          IN  /\ Len(sb_public) = Len(PublicFileRecords)
              /\ \A i \in 1..Len(sb_public) :
                    LET score == sb_public[i]["Composite Score"]
                        e == FileEnrollment(PublicFileRecords[i])
                        r == FileRatio(PublicFileRecords[i])
                    IN  /\ score[1] = "quot"
                        /\ score[2] * (2 * largest * r[2])
                             = score[3] * (e * r[2] + r[1] * largest)
    /\ (/\ sb_pc = "done"
        /\ Len(PublicFileRecords) = 2
        /\ \E i \in 1..2 :
              /\ FileEnrollment(PublicFileRecords[i]) = 100
              /\ FileRatio(PublicFileRecords[i]) = <<1, 5>>
              /\ FileEnrollment(PublicFileRecords[3 - i]) = 50
              /\ FileRatio(PublicFileRecords[3 - i]) = <<2, 5>>) =>
          /\ Len(sb_spreadsheet[1].public) = 2
          /\ sb_spreadsheet[1].public[1]["Enrollment"] = PyInt(100)
          /\ sb_spreadsheet[1].public[1]["Composite Score"] = <<"quot", 3, 5>>
          /\ sb_spreadsheet[1].public[2]["Enrollment"] = PyInt(50)
          /\ sb_spreadsheet[1].public[2]["Composite Score"] = <<"quot", 9, 20>>

C16_Witness ==
    /\ sb_pc = "done"
    /\ Len(sb_files) = 2
    /\ sb_files[1].readable
    /\ FileEnrollment(sb_files[1].data) = 50
    /\ Len(sb_spreadsheet[1].public) = 2
    /\ sb_spreadsheet[1].public[1]["Enrollment"] = PyInt(100)
    /\ sb_spreadsheet[1].public[1]["Composite Score"] = <<"quot", 3, 5>>
    /\ sb_spreadsheet[1].public[2]["Composite Score"] = <<"quot", 9, 20>>

\* C17: when the public segment is empty or every public record has
\* enrollment 0, the run does not get past the scoring of the public segment:
\* it stops with an error and no spreadsheet is written.
C17_FatalOnEmptyOrZeroSegment ==
    (/\ sb_pc \notin {"load", "separate", "process_public"}
     /\ \A i \in 1..Len(PublicFileRecords) :
           FileEnrollment(PublicFileRecords[i]) = 0) =>
        /\ sb_pc = "raised"
        /\ sb_spreadsheet = << >>

\* C18: in a finished run, the Ranking Score of every private record is its
\* ratio, or 0 when the ratio is null, and the private sheet has as many rows
\* with a null ratio column as the private segment has records with a null
\* ratio: the column keeps the null.
C18_PrivateScoreKeepsNullRatio ==
    sb_pc = "done" =>
        /\ Len(sb_private) = Len(PrivateFileRecords)
        /\ \A i \in 1..Len(sb_private) :
              sb_private[i]["Ranking Score"] =
                  <<"quot", FileRatio(PrivateFileRecords[i])[1],
                            FileRatio(PrivateFileRecords[i])[2]>>
        /\ Cardinality({j \in 1..Len(sb_spreadsheet[1].private) :
                          sb_spreadsheet[1].private[j]["Black Population Ratio"] = None})
           = Cardinality({i \in 1..Len(PrivateFileRecords) :
                            /\ "Black Population Ratio" \in DOMAIN PrivateFileRecords[i]
                            /\ PrivateFileRecords[i]["Black Population Ratio"] = None})

\* out holds the records of in, each as often as in does, in non-increasing
\* order of the score under key, the records of one score in the order of in.
RankedStably(in, out, key) ==
    /\ Len(out) = Len(in)
    /\ \A i \in 1..Len(in) :
          Cardinality({j \in 1..Len(out) : out[j] = in[i]})
          = Cardinality({j \in 1..Len(in) : in[j] = in[i]})
    /\ \A i \in 1..Len(out) - 1 :
          out[i][key][2] * out[i + 1][key][3] >= out[i + 1][key][2] * out[i][key][3]
    /\ \A i \in 1..Len(in) :
          SelectSeq(out, LAMBDA s : s[key] = in[i][key])
          = SelectSeq(in, LAMBDA s : s[key] = in[i][key])

\* C19: in each segment, once it is sorted, the sorted records are a
\* permutation of the segment's records in non-increasing order of score and
\* two records of equal score are in the order they had before the sort; the
\* rows of each sheet are in the order of the sorted records.
C19_StableDescendingOrder ==
    /\ sb_pc \in {"process_private", "write", "done"} =>
          RankedStably(sb_public, sb_public_sorted, "Composite Score")
    /\ sb_pc \in {"write", "done"} =>
          RankedStably(sb_private, sb_private_sorted, "Ranking Score")
    /\ sb_pc = "done" =>
          /\ Len(sb_spreadsheet[1].public) = Len(sb_public_sorted)
          /\ \A i \in 1..Len(sb_public_sorted) :
                /\ sb_spreadsheet[1].public[i]["Composite Score"]
                     = sb_public_sorted[i]["Composite Score"]
                /\ sb_spreadsheet[1].public[i]["Enrollment"]
                     = sb_public_sorted[i]["Enrollment"]
          /\ Len(sb_spreadsheet[1].private) = Len(sb_private_sorted)
          /\ \A i \in 1..Len(sb_private_sorted) :
                sb_spreadsheet[1].private[i]["Ranking Score"]
                  = sb_private_sorted[i]["Ranking Score"]

C19_Witness ==
    /\ sb_pc = "done"
    /\ Len(sb_private_sorted) = 2
    /\ sb_private_sorted[1] # sb_private_sorted[2]
    /\ sb_private_sorted[1]["Ranking Score"] = sb_private_sorted[2]["Ranking Score"]
    /\ sb_private_sorted = sb_private

\* C20: the scoring steps of the ranking stage leave the records they are
\* given as they were: neither the loaded records nor the records of the two
\* segments change when a segment is scored.
C20_ScoringLeavesRecordsUnchanged ==
    [][(sb_pc = "process_public" \/ sb_pc = "process_private") =>
          (sb_schools' = sb_schools /\ sb_public' = sb_public
           /\ sb_private' = sb_private)]_vars

SomeFileTruncated ==
    \/ \E k \in DOMAIN schools_incremental : schools_incremental[k] = Truncated
    \/ \E k \in DOMAIN schools_dir : schools_dir[k] = Truncated
    \/ all_schools_json = <<TruncatedAggregate>>

RecordOfLast ==
    merge_data(all_basic_schools[last.idx + 1],
               IF last.details_ok THEN DetailsTable ELSE EmptyDict,
               IF last.additional_ok THEN AdditionalTable ELSE EmptyDict)

C23_RowsBelongToThisRun ==
    (pl_pc = "rank" /\ sb_pc = "done") =>
        /\ \A i \in 1..Len(sb_spreadsheet[1].public) :
              sb_spreadsheet[1].public[i]["School ID"] \in DOMAIN all_schools_data
        /\ \A i \in 1..Len(sb_spreadsheet[1].private) :
              sb_spreadsheet[1].private[i]["School ID"] \in DOMAIN all_schools_data

\* Whether one of clean_text's phrases occurs in t, whatever the case.
HasBoilerplate(t) ==
    \E k \in 1..Len(removals) : \E i \in 1..Len(t) : removal_match(t, i, removals[k]) > 0

\* C24: clean_text is idempotent and what it returns contains none of the
\* boilerplate phrases: clean_text of its own result is that result, also when
\* removing one phrase joins the text on both sides of it into another
\* occurrence of a phrase.
C24_CleanTextIdempotent ==
    /\ (ct_pc = "once" \/ ct_pc = "twice") => ~HasBoilerplate(ct_once)
    /\ ct_pc = "twice" => ct_twice = ct_once

====
